---- MODULE Spec2Model ----
(***************************************************************************)
(* Model of lardwaz/routing: the resource cacher (src/cacher.go), its      *)
(* variant with update callbacks (src/unnamed/part_001), the HTTP reader   *)
(* of the cached tuple, the event-stream bridges and the websocket proxy.  *)
(*                                                                         *)
(* Threads: the caller of the registry API, one fetch-loop goroutine per   *)
(* resource, and one HTTP reader.                                          *)
(*                                                                         *)
(*   Spec      the cacher of cacher.go: registry, loops, stop handoff.     *)
(*             Every thread in it takes the resource's mutex to Fetch, so  *)
(*             a Fetch is one step.                                        *)
(*   FairSpec  Spec under fair scheduling.                                 *)
(*   SpecRace  one resource of cacher.go with ServeHTTP, which takes no    *)
(*             lock: Fetch and ServeHTTP run statement by statement.       *)
(*   SpecEv    the cacher of part_001, whose Fetch runs callbacks.         *)
(*   SpecOld   the single-resource cacher of part_002, whose handler       *)
(*             fetches when its cache is nil.                              *)
(*   SpecFn    Resource.IsOriginAllowed on its own, over allow-lists.      *)
(*   SpecSub   the cacher of cacher.go with its subscription endpoint.     *)
(*   SpecHub   the registry of part_001 with its hooks, bare or under the  *)
(*             per-alias bridge (part_004) or the shared-channel bridge    *)
(*             (csse.go); FairSpecHub is SpecHub under fair scheduling.    *)
(*   SpecCommon  the shared-channel bridge with its endpoint and the       *)
(*             replay to a subscriber, statement by statement.             *)
(*   SpecCb    the registry of part_001 with callbacks that change the     *)
(*             resource, and resources added again after a removal.        *)
(*   SpecGo    AddResource of part_001 called by two goroutines at once.   *)
(*   SpecFlag  Resource.StartFetcher of cacher.go called by two goroutines *)
(*             at once: the read and the write of the flag are two steps.  *)
(*   SpecLk    Fetch of part_001 at the grain of its mutex, with callbacks *)
(*             that call Fetch.                                            *)
(*   SpecWs    the WebAppProxy and the WebSocketReverseProxy (part_005);   *)
(*             FairSpecWs is SpecWs under fair scheduling.                 *)
(***************************************************************************)
EXTENDS Integers, Sequences, FiniteSets, TLC

\* ------------------------------------------------------------------ bounds
MaxTicks == 2          \* ticks delivered to the loops, in all
MaxCalls == 3          \* calls of the API made by the callers, in all
MaxServes == 2         \* HTTP requests served by the reader
MaxOrigins == 2        \* entries of an allow-list given to IsOriginAllowed
MaxReplayTicks == 1    \* ticks delivered to the loops of a bridge with subscribers

\* --------------------------------------------------------------- constants
Second == 1000         \* time.Second, in milliseconds

Res == {"r1", "r2"}                 \* *Resource objects built by the user
Callers == {"main"}                 \* goroutines calling the registry API
Goroutines == {"main", "go"}        \* "go rc.AddResource(...)", twice
AliasKeys == {"a", "b"}             \* keys the registry map can hold
NoRes == "nores"
NoCfg == [Alias |-> "?", Method |-> "?", URL |-> "?", Interval |-> 0,
          AllowedOrigins |-> <<>>, TransformFn |-> "nil"]

\* The Resource literals handed to AddResource: three that pass its checks
\* (the last with a method http.NewRequest refuses), and one for each way a
\* literal can be wrong.
ValidConfigs ==
  { [Alias |-> "a", Method |-> "GET", URL |-> "u", Interval |-> 1000,
     AllowedOrigins |-> <<>>, TransformFn |-> "nil"],
    [Alias |-> "b", Method |-> "GET", URL |-> "u", Interval |-> 500,
     AllowedOrigins |-> <<"o1">>, TransformFn |-> "pad"],
    [Alias |-> "b", Method |-> "G T", URL |-> "u", Interval |-> 1000,
     AllowedOrigins |-> <<>>, TransformFn |-> "nil"] }

InvalidConfigs ==
  { [Alias |-> "", Method |-> "GET", URL |-> "u", Interval |-> 1000,
     AllowedOrigins |-> <<>>, TransformFn |-> "nil"],
    [Alias |-> "b", Method |-> "", URL |-> "u", Interval |-> 1000,
     AllowedOrigins |-> <<>>, TransformFn |-> "nil"],
    [Alias |-> "b", Method |-> "GET", URL |-> "", Interval |-> 1000,
     AllowedOrigins |-> <<>>, TransformFn |-> "nil"],
    [Alias |-> "b", Method |-> "GET", URL |-> "u", Interval |-> 0,
     AllowedOrigins |-> <<>>, TransformFn |-> "nil"],
    [Alias |-> "b", Method |-> "GET", URL |-> "u", Interval |-> -1,
     AllowedOrigins |-> <<>>, TransformFn |-> "nil"] }

Configs == ValidConfigs \cup InvalidConfigs

\* ------------------------------------------------------------- the upstream
\* A body is a sequence of bytes.  What the upstream may answer: a status, a
\* body and its headers (the server sets Content-Length to the body's length).
EmptyHeader == [ContentLength |-> <<>>, XUp |-> <<>>, Etag |-> <<>>,
                CacheControl |-> <<>>, Vary |-> <<>>, ACAO |-> <<>>]

UpResponse(status, body, xup) ==
  [StatusCode |-> status, Body |-> body,
   Header |-> [EmptyHeader EXCEPT !.ContentLength = <<Len(body)>>, !.XUp = xup]]

\* The last one has a header with two values and a Vary of its own.
Responses ==
  { UpResponse(200, <<1>>, <<"v1">>),
    UpResponse(500, <<1>>, <<>>),
    [UpResponse(200, <<>>, <<"v1", "v2">>)
       EXCEPT !.Header.Vary = <<"Accept-Encoding">>] }

\* cli.Do and ioutil.ReadAll can fail whatever the request; http.NewRequest
\* fails exactly when the method is no valid token.
TransportFailures == {"do", "readall"}
NewRequestFails(method) == method \notin {"GET", ""}

\* fmt.Sprintf("%x", sha1.Sum(b)): a digest, never the empty string, taken
\* to be collision free.
EmptyHash == <<>>
Sha1Hex(b) == <<100 + Len(b)>> \o b

\* The TransformFn values the tests use: none, or a function of the body.
\* "pad" appends one byte to the body.
ApplyTransform(fn, b) == IF fn = "pad" THEN b \o <<0>> ELSE b

\* fmt.Sprintf("max-age=%d", r.Interval/time.Second): Go's integer division
\* truncates toward zero.
MaxAge(interval) ==
  IF interval >= 0 THEN interval \div Second ELSE -((-interval) \div Second)

VARIABLES
  enableSSE,    \* opts.EnableSSE (sseServer # nil exactly when it is set)
  resources,    \* ResourceCacher.resources: alias -> resource or NoRes
  cfg,          \* the immutable fields of each Resource, NoCfg until built
  Hash, Content, StatusCode, Header,   \* the cached tuple of each Resource
  running,      \* Resource.running
  mu,           \* Resource.mu: "free" or the thread holding it
  fpc,          \* where the holder of mu is in Fetch
  flocal,       \* Fetch's locals: hash, b, resp.StatusCode, resp.Header
  loop,         \* the loop goroutine of each resource
  caller,       \* each caller: the call it is in, where, and its result
  sent,         \* SendMessage calls per resource: how many, the last payload
  sseDown,      \* sseServer.Shutdown() was called
  crashed,      \* the process died of a panic
  reader,       \* the HTTP reader: request, position, response so far
  OnResourceUpdated,   \* the hook of the cacher (part_001), "nil" if unset
  onUpdateEvents,      \* Resource.onUpdateEvents (part_001)
  updates,             \* callbacks run by executeUpdateEvents, per resource
  probe,               \* the last call of a function on its own, its result
  bridge,              \* the event-stream server of a bridge and its hooks
  ws,                  \* the duplex proxy, its connections and copy tasks
  ticks, ncalls, nserves   \* history: counters that bound the run

vars == <<enableSSE, resources, cfg, Hash, Content, StatusCode, Header,
          running, mu, fpc, flocal, loop, caller, sent, sseDown,
          crashed, reader, OnResourceUpdated, onUpdateEvents, updates,
          probe, bridge, ws, ticks, ncalls, nserves>>

tupleVars == <<Hash, Content, StatusCode, Header>>
countVars == <<ticks, ncalls, nserves>>
evVars == <<OnResourceUpdated, onUpdateEvents, updates>>

NoLocal == [hash |-> EmptyHash, b |-> <<>>, status |-> 0, header |-> EmptyHeader]
Idle == [op |-> "idle", pc |-> "idle", r |-> NoRes, todo |-> {}, err |-> "none",
         cf |-> NoCfg]
Returned(op, r, err, cf) ==
  [op |-> op, pc |-> "returned", r |-> r, todo |-> {}, err |-> err, cf |-> cf]
NoSent == [n |-> 0, last |-> <<>>]
NoReq == [alias |-> "none", origin |-> "", inm |-> EmptyHash]
ReaderIdle == [pc |-> "idle", req |-> NoReq, r |-> NoRes, status |-> 0,
               header |-> EmptyHeader, msg |-> "", body |-> <<>>]

NoProbe == [fn |-> "none", list |-> <<>>, origin |-> "", out |-> FALSE]

\* A message given to the event-stream server: the channel, the event id
\* and the data.
NoMsg == [ch |-> "", id |-> <<>>, data |-> <<>>]

\* A subscriber being replayed to by OnClientConnect: the keys of the
\* registry when the range began, the keys gone over, the resource in hand,
\* the content read from it, the number of events the client was sent and
\* the last of them, and the map as the range last saw it.
NoClient == [pc |-> "none", start |-> {}, visited |-> {}, r |-> NoRes,
             content |-> <<>>, nevents |-> 0, event |-> NoMsg,
             snap |-> [a \in AliasKeys |-> NoRes]]

\* The cacher of part_001 with no bridge on it and no hook set:
\*   kind      "none"; "user": hooks of the user that do nothing to the
\*             cacher; "sse": SSEResourceCacher (part_004); "csse":
\*             CSSEResourceCacher (csse.go)
\*   channels  the channels of the event-stream server
\*   nmsg      SendMessage calls on the server; last: the last message
\*   hooks     the OnResourceRemoved, OnStarted and OnStopped calls made
\*   ran       the update callbacks the last notifying Fetch ran, in their
\*             order, each with the content it found in the resource
\*   client    the subscriber being connected
NoBridge == [kind |-> "none", channels |-> {}, nmsg |-> 0, last |-> NoMsg,
             hooks |-> <<>>, ran |-> <<>>, client |-> NoClient]

\* A request as the proxies see it: the values of its Connection and of its
\* Upgrade header, in the order of the header lines.
NoWsReq == [Connection |-> <<>>, Upgrade |-> <<>>]

\* A WebSocketReverseProxy just built (part_005:21-26), no request yet:
\*   pc        where its ServeHTTP is
\*   req       the request being routed; route: the handler WebAppProxy gave
\*             it to, "direct" for a request made to the proxy itself
\*   hijacker  the ResponseWriter of the request implements http.Hijacker
\*   conn      ws.Connection: "nil" or "set"
\*   up        the upstream socket: "none", "open", "eof" (closed by the
\*             upstream) or "reset" (broken); upData: bytes wait on it
\*   hijacked  the client connection nc was taken over; ncClosed: nc.Close()
\*             has run; cli: what the client did with its side of nc;
\*             cliData: bytes of the client wait on nc
\*   status    the status of the HTTP response written, 0 if none
\*   written   the request was written to the upstream
\*   errc      errors buffered in errc (capacity 2)
\*   cu, uc    the copy tasks client->upstream and upstream->client
\*   leaked    copy tasks of earlier requests that never ended
NoWs ==
  [pc |-> "idle", req |-> NoWsReq, route |-> "none", hijacker |-> TRUE,
   conn |-> "nil", up |-> "none", upData |-> FALSE, hijacked |-> FALSE,
   ncClosed |-> FALSE, cli |-> "open", cliData |-> FALSE, status |-> 0,
   written |-> FALSE, errc |-> 0, cu |-> "none", uc |-> "none", leaked |-> 0]

\* A cacher with no resource yet, and nothing built or running, and the
\* goroutines G that will call it.
FreshFor(G) ==
  /\ resources = [a \in AliasKeys |-> NoRes]
  /\ cfg = [r \in Res |-> NoCfg]
  /\ Hash = [r \in Res |-> EmptyHash]
  /\ Content = [r \in Res |-> <<>>]
  /\ StatusCode = [r \in Res |-> 0]
  /\ Header = [r \in Res |-> EmptyHeader]
  /\ running = [r \in Res |-> FALSE]
  /\ mu = [r \in Res |-> "free"]
  /\ fpc = [r \in Res |-> "none"]
  /\ flocal = [r \in Res |-> NoLocal]
  /\ loop = [r \in Res |-> "none"]
  /\ caller = [c \in G |-> Idle]
  /\ sent = [r \in Res |-> NoSent]
  /\ sseDown = FALSE
  /\ crashed = FALSE
  /\ reader = ReaderIdle
  /\ ticks = 0
  /\ ncalls = 0
  /\ nserves = 0
  /\ onUpdateEvents = [r \in Res |-> <<>>]
  /\ updates = [r \in Res |-> 0]
  /\ probe = NoProbe
  /\ ws = NoWs

FreshCacher == FreshFor(Callers)

Fresh == FreshCacher /\ bridge = NoBridge

\* NewResourceCacher(opts), cacher.go:172-208.
Init ==
  /\ enableSSE \in BOOLEAN
  /\ OnResourceUpdated = "nil"
  /\ Fresh

\* The nil channel: Resource.stopFetcher is declared (cacher.go:34) and no
\* code of the package ever makes it, so it keeps its zero value.
NilChan == "nil"
stopFetcher == [r \in Res |-> NilChan]

\* The user builds the Resource values one after the other; one that
\* AddResource rejects is dropped.
NextObject ==
  IF cfg["r1"] = NoCfg THEN "r1" ELSE IF cfg["r2"] = NoCfg THEN "r2" ELSE NoRes

Registered == {resources[a] : a \in AliasKeys} \ {NoRes}

\* A caller makes one more call of the API.
Call == ncalls < MaxCalls /\ ncalls' = ncalls + 1

\* ------------------------------------------------------------ Resource.Fetch
\* The cached tuple of a resource as one value, and its assignment.
Tuple(r) == [Hash |-> Hash[r], Content |-> Content[r],
             StatusCode |-> StatusCode[r], Header |-> Header[r]]
EmptyTuple == [Hash |-> EmptyHash, Content |-> <<>>, StatusCode |-> 0,
               Header |-> EmptyHeader]
SetTuple(r, t) ==
  /\ Hash' = [Hash EXCEPT ![r] = t.Hash]
  /\ Content' = [Content EXCEPT ![r] = t.Content]
  /\ StatusCode' = [StatusCode EXCEPT ![r] = t.StatusCode]
  /\ Header' = [Header EXCEPT ![r] = t.Header]

\* (a Fetch that hashes the body as it came from the upstream)
FetchLocalsRawHash(cf, resp) ==
  LET b == ApplyTransform(cf.TransformFn, resp.Body) IN
  [hash |-> Sha1Hex(resp.Body),
   b |-> b,
   status |-> resp.StatusCode,
   header |-> IF cf.TransformFn # "nil"
                THEN [resp.Header EXCEPT !.ContentLength = <<Len(b)>>]
                ELSE resp.Header]

\* Fetch's locals once the response is read (cacher.go:59-69): the body,
\* transformed if a TransformFn is set, the response header with its
\* Content-Length set again in that case, and the hash of the body.
FetchLocals(cf, resp) ==
  LET b == ApplyTransform(cf.TransformFn, resp.Body) IN
  [hash |-> Sha1Hex(b),
   b |-> b,
   status |-> resp.StatusCode,
   header |-> IF cf.TransformFn # "nil"
                THEN [resp.Header EXCEPT !.ContentLength = <<Len(b)>>]
                ELSE resp.Header]

\* "if content is not new, we skip" (cacher.go:71-74).
ContentIsNotNew(t, l) == t.Hash = l.hash

\* The statements that store the response (cacher.go:76-83), one by one.
StoreHash(t, l) == [t EXCEPT !.Hash = l.hash]
StoreContent(t, l) == [t EXCEPT !.Content = l.b]
\* (a Fetch that forgot the status code)
StoreStatusCodeSkipped(t, l) == t
StoreStatusCode(t, l) == [t EXCEPT !.StatusCode = l.status]
StoreHeader(t, l) == [t EXCEPT !.Header = l.header]
\* (a Fetch that set no Etag)
StoreEtagOmitted(t) == t
StoreEtag(t) == [t EXCEPT !.Header.Etag = <<t.Hash>>]
\* (a max-age rounded up to the next second)
StoreCacheControlRoundedUp(t, cf) ==
  [t EXCEPT !.Header.CacheControl =
              <<(cf.Interval + Second - 1) \div Second>>]
StoreCacheControl(t, cf) ==
  [t EXCEPT !.Header.CacheControl = <<MaxAge(cf.Interval)>>]

\* All of them, in the order of the code.
Store(t, l, cf) ==
  StoreCacheControl(
    StoreEtag(
      StoreHeader(StoreStatusCode(StoreContent(StoreHash(t, l), l), l), l)),
    cf)

\* "Inform clients on this resource SSE channel" (cacher.go:85-88).
Notify(r, b) ==
  sent' = [sent EXCEPT ![r] =
             IF enableSSE THEN [n |-> @.n + 1, last |-> b] ELSE @]

\* (a failed Fetch that dropped the stale content)
FailedFetchClears(r) ==
  /\ Content' = [Content EXCEPT ![r] = <<>>]
  /\ UNCHANGED <<Hash, StatusCode, Header, sent>>

\* What a Fetch whose request failed does to the resource (cacher.go:48-62):
\* nothing.
FailedFetch(r) == UNCHANGED <<tupleVars, sent>>

\* (a loop with a select and no for around it, as CacheItem.StartFetcher of
\* part_000:98-106: it ends after one Fetch)
FetchReturnsOnce(r, t, err) ==
  IF t = "loop"
    THEN /\ loop' = [loop EXCEPT ![r] = "exited"]
         /\ UNCHANGED caller
    ELSE /\ UNCHANGED loop
         /\ IF caller[t].op = "Fetch"
              THEN caller' = [caller EXCEPT ![t] = Returned("Fetch", r, err, NoCfg)]
              ELSE caller' = [caller EXCEPT ![t] =
                        [@ EXCEPT !.pc = "spawn", !.err = err]]

\* Fetch returns to the thread t that called it: the loop goes back to its
\* select (cacher.go:129-132), a manual Fetch returns to its caller, and
\* StartFetcher, which drops the error, goes on to spawn the loop
\* (cacher.go:127-128).
FetchReturns(r, t, err) ==
  IF t = "loop"
    THEN /\ loop' = [loop EXCEPT ![r] = "select"]
         /\ UNCHANGED caller
    ELSE /\ UNCHANGED loop
         /\ IF caller[t].op = "Fetch"
              THEN caller' = [caller EXCEPT ![t] = Returned("Fetch", r, err, NoCfg)]
              ELSE caller' = [caller EXCEPT ![t] =
                        [@ EXCEPT !.pc = "spawn", !.err = err]]

\* Resource.Fetch from Lock to Unlock (cacher.go:40-91), run by thread t.
\* The mutex keeps two Fetches of a resource apart, so among threads that
\* take it a Fetch is one step.
FetchBody(r, t) ==
  IF NewRequestFails(cfg[r].Method)
    THEN FailedFetch(r) /\ FetchReturns(r, t, "newrequest")
    ELSE \/ \E f \in TransportFailures :
              FailedFetch(r) /\ FetchReturns(r, t, f)
         \/ \E resp \in Responses :
              LET l == FetchLocals(cfg[r], resp) IN
              /\ IF ContentIsNotNew(Tuple(r), l)
                   THEN UNCHANGED <<tupleVars, sent>>
                   ELSE /\ SetTuple(r, Store(Tuple(r), l, cfg[r]))
                        /\ Notify(r, l.b)
              /\ FetchReturns(r, t, "nil")

\* A caller's Fetch: StartFetcher's first one, or a manual one.
CallerFetch(c) ==
  /\ ~crashed
  /\ caller[c].pc = "lock"
  /\ mu[caller[c].r] = "free"
  /\ FetchBody(caller[c].r, c)
  /\ UNCHANGED <<enableSSE, resources, cfg, running, mu, fpc, flocal,
                 sseDown, crashed, reader, evVars, probe,
                 bridge, ws, countVars>>

\* The loop's Fetch on a tick (cacher.go:131-132).
LoopFetch(r) ==
  /\ ~crashed
  /\ loop[r] = "lock"
  /\ mu[r] = "free"
  /\ FetchBody(r, "loop")
  /\ UNCHANGED <<enableSSE, resources, cfg, running, mu, fpc, flocal,
                 sseDown, crashed, reader, evVars, probe,
                 bridge, ws, countVars>>

\* ------------------------------------- Resource.Fetch, statement by statement
\* The same function at the grain a thread that takes no lock can see.
\* r.mu.Lock() (cacher.go:41) by thread t, which then holds the mutex.
FetchLock(r, t) ==
  /\ mu[r] = "free"
  /\ mu' = [mu EXCEPT ![r] = t]
  /\ fpc' = [fpc EXCEPT ![r] = "request"]
  /\ UNCHANGED <<enableSSE, resources, cfg, tupleVars, running, flocal, sent,
                 sseDown, crashed, reader, evVars, probe,
                 bridge, ws, countVars>>

CallerLock(c) ==
  /\ ~crashed
  /\ caller[c].pc = "lock"
  /\ caller' = [caller EXCEPT ![c] = [@ EXCEPT !.pc = "fetch"]]
  /\ FetchLock(caller[c].r, c)
  /\ UNCHANGED loop

LoopLock(r) ==
  /\ ~crashed
  /\ loop[r] = "lock"
  /\ loop' = [loop EXCEPT ![r] = "fetch"]
  /\ FetchLock(r, "loop")
  /\ UNCHANGED caller

\* The deferred r.mu.Unlock() and the return to the thread holding the mutex.
FetchUnlock(r, err) ==
  /\ mu' = [mu EXCEPT ![r] = "free"]
  /\ fpc' = [fpc EXCEPT ![r] = "none"]
  /\ flocal' = [flocal EXCEPT ![r] = NoLocal]
  /\ FetchReturns(r, mu[r], err)

fetchFrame == <<enableSSE, resources, cfg, running, sseDown, crashed, reader,
                evVars, probe,
                bridge, ws,
                countVars>>

\* The request, the read of the body, the transform and the hash
\* (cacher.go:43-69).
FetchRequest(r) ==
  /\ ~crashed
  /\ fpc[r] = "request"
  /\ IF NewRequestFails(cfg[r].Method)
       THEN FailedFetch(r) /\ FetchUnlock(r, "newrequest")
       ELSE \/ \E f \in TransportFailures :
                 FailedFetch(r) /\ FetchUnlock(r, f)
            \/ \E resp \in Responses :
                 /\ flocal' = [flocal EXCEPT ![r] = FetchLocals(cfg[r], resp)]
                 /\ fpc' = [fpc EXCEPT ![r] = "compare"]
                 /\ UNCHANGED <<tupleVars, sent, mu, loop, caller>>
  /\ UNCHANGED fetchFrame

\* if hash == r.Hash { return nil } (cacher.go:71-74).
FetchCompare(r) ==
  /\ ~crashed
  /\ fpc[r] = "compare"
  /\ IF ContentIsNotNew(Tuple(r), flocal[r])
       THEN FetchUnlock(r, "nil")
       ELSE /\ fpc' = [fpc EXCEPT ![r] = "hash"]
            /\ UNCHANGED <<mu, flocal, loop, caller>>
  /\ UNCHANGED <<tupleVars, sent>>
  /\ UNCHANGED fetchFrame

\* One of the assignments of cacher.go:76-83: the thread at `at` stores `t`
\* and goes on to `to`.
FetchAssign(r, at, t, to) ==
  /\ ~crashed
  /\ fpc[r] = at
  /\ SetTuple(r, t)
  /\ fpc' = [fpc EXCEPT ![r] = to]
  /\ UNCHANGED <<mu, flocal, loop, caller, sent>>
  /\ UNCHANGED fetchFrame

FetchStoreHash(r) ==
  FetchAssign(r, "hash", StoreHash(Tuple(r), flocal[r]), "content")
FetchStoreContent(r) ==
  FetchAssign(r, "content", StoreContent(Tuple(r), flocal[r]), "status")
FetchStoreStatusCode(r) ==
  FetchAssign(r, "status", StoreStatusCode(Tuple(r), flocal[r]), "header")
FetchStoreHeader(r) ==
  FetchAssign(r, "header", StoreHeader(Tuple(r), flocal[r]), "etag")
FetchStoreEtag(r) ==
  FetchAssign(r, "etag", StoreEtag(Tuple(r)), "cachecontrol")
FetchStoreCacheControl(r) ==
  FetchAssign(r, "cachecontrol", StoreCacheControl(Tuple(r), cfg[r]), "notify")

\* The SSE send, return nil and the deferred Unlock (cacher.go:85-90).
FetchNotify(r) ==
  /\ ~crashed
  /\ fpc[r] = "notify"
  /\ Notify(r, flocal[r].b)
  /\ FetchUnlock(r, "nil")
  /\ UNCHANGED tupleVars
  /\ UNCHANGED fetchFrame

\* ------------------------------------------------- StartFetcher, StopFetcher
\* What runs once StartFetcher has returned to AddResource or to Start:
\* AddResource inserts the resource and returns it (cacher.go:232-234),
\* Start goes on with the next resource (cacher.go:239-241).
AfterStartFetcher(c, r, op, todo) ==
  IF op = "AddResource"
    THEN /\ resources' = [resources EXCEPT ![cfg'[r].Alias] = r]
         /\ caller' = [caller EXCEPT ![c] =
              Returned("AddResource", r, "nil", cfg'[r])]
    ELSE /\ caller' = [caller EXCEPT ![c] =
              [Idle EXCEPT !.op = op, !.pc = "range", !.todo = todo]]
         /\ UNCHANGED resources

\* (a StartFetcher without its "already running" return)
StartFetcherAgain(c, r, op, todo) ==
  /\ running' = [running EXCEPT ![r] = TRUE]
  /\ caller' = [caller EXCEPT ![c] =
       [Idle EXCEPT !.op = op, !.pc = "lock", !.r = r, !.todo = todo,
                    !.cf = cfg'[r]]]
  /\ UNCHANGED <<crashed, resources>>

\* StartFetcher up to its first Fetch (cacher.go:119-127): return if the
\* resource is running, else set the flag and make the ticker;
\* time.NewTicker panics on a duration that is not positive.
StartFetcher(c, r, op, todo) ==
  IF running[r]
    THEN /\ AfterStartFetcher(c, r, op, todo)
         /\ UNCHANGED <<running, crashed>>
    ELSE /\ running' = [running EXCEPT ![r] = TRUE]
         /\ IF cfg'[r].Interval <= 0
              THEN /\ crashed' = TRUE
                   /\ caller' = [caller EXCEPT ![c] =
                        [Idle EXCEPT !.op = op, !.pc = "panicked", !.r = r,
                                     !.cf = cfg'[r]]]
                   /\ UNCHANGED resources
              ELSE /\ caller' = [caller EXCEPT ![c] =
                        [Idle EXCEPT !.op = op, !.pc = "lock", !.r = r,
                                     !.todo = todo, !.cf = cfg'[r]]]
                   /\ UNCHANGED <<crashed, resources>>

\* "go func() { for { select ... } }()" (cacher.go:128-138), then back in
\* the function that called StartFetcher.
StartFetcherSpawn(c) ==
  LET r == caller[c].r IN
  /\ ~crashed
  /\ caller[c].pc = "spawn"
  /\ loop' = [loop EXCEPT ![r] = "select"]
  /\ cfg' = cfg
  /\ AfterStartFetcher(c, r, caller[c].op, caller[c].todo)
  /\ UNCHANGED <<enableSSE, tupleVars, running, mu, fpc, flocal, sent,
                 sseDown, crashed, reader, evVars, probe,
                 bridge, ws, countVars>>

\* (a send that waits for no receiver: a buffered channel)
SendStopBuffered(c, r, op, rest) ==
  caller' = [caller EXCEPT ![c] =
     IF op = "Stop"
       THEN [Idle EXCEPT !.op = op, !.pc = "range", !.todo = rest]
       ELSE Returned("StopFetcher", r, "nil", NoCfg)]

\* r.stopFetcher <- struct{}{} (cacher.go:143): the sender waits at the
\* send until a receiver takes the value.
SendStop(c, r, op, rest) ==
  caller' = [caller EXCEPT ![c] =
     [Idle EXCEPT !.op = op, !.pc = "send", !.r = r, !.todo = rest]]

\* A send on a channel completes when the channel has been made and the
\* loop is at its select with the stop case ready.
CanReceiveStop(r) == stopFetcher[r] # NilChan /\ loop[r] = "select"

\* Resource.StopFetcher called on a resource by its owner (cacher.go:142-144).
StopFetcher(c, r) ==
  /\ ~crashed
  /\ caller[c] = Idle
  /\ Call
  /\ SendStop(c, r, "StopFetcher", {})
  /\ UNCHANGED <<enableSSE, resources, cfg, tupleVars, running, mu, fpc,
                 flocal, loop, sent, sseDown, crashed, reader, evVars, probe,
                 bridge, ws,
                 ticks, nserves>>

\* The loop's select (cacher.go:129-137): a tick starts a Fetch; a stop
\* signal, taken from the sender waiting in StopFetcher, clears the flag and
\* ends the goroutine, and the sender goes on.
LoopSelect(r) ==
  /\ ~crashed
  /\ loop[r] = "select"
  /\ \/ /\ ticks < MaxTicks
        /\ ticks' = ticks + 1
        /\ loop' = [loop EXCEPT ![r] = "lock"]
        /\ UNCHANGED <<running, caller>>
     \/ \E c \in Callers :
          /\ caller[c].pc = "send"
          /\ caller[c].r = r
          /\ CanReceiveStop(r)
          /\ running' = [running EXCEPT ![r] = FALSE]
          /\ loop' = [loop EXCEPT ![r] = "exited"]
          /\ caller' = [caller EXCEPT ![c] =
               IF caller[c].op = "Stop"
                 THEN [@ EXCEPT !.pc = "range", !.r = NoRes]
                 ELSE Returned("StopFetcher", r, "nil", NoCfg)]
          /\ UNCHANGED ticks
  /\ UNCHANGED <<enableSSE, resources, cfg, tupleVars, mu, fpc, flocal, sent,
                 sseDown, crashed, reader, evVars, probe,
                 bridge, ws, ncalls, nserves>>

\* ------------------------------------------------------------ ResourceCacher
\* The checks of AddResource (cacher.go:212-226).
Validate(cf) ==
  IF cf.Alias = "" THEN "missing alias"
  ELSE IF cf.Method = "" THEN "missing method"
  ELSE IF cf.URL = "" THEN "missing url"
  ELSE IF cf.Interval = 0 THEN "invalid interval"
  ELSE "nil"

\* AddResource (cacher.go:211-235) on a Resource the user has just built,
\* up to the first Fetch of StartFetcher.
AddResource(c, r, cf) ==
  /\ ~crashed
  /\ caller[c] = Idle
  /\ Call
  /\ r = NextObject
  /\ IF Validate(cf) # "nil"
       THEN /\ caller' = [caller EXCEPT ![c] =
                 Returned("AddResource", NoRes, Validate(cf), cf)]
            /\ UNCHANGED <<cfg, resources, running, crashed>>
       ELSE /\ cfg' = [cfg EXCEPT ![r] = cf]
            /\ StartFetcher(c, r, "AddResource", {})
  /\ UNCHANGED <<enableSSE, tupleVars, mu, fpc, flocal, loop, sent,
                 sseDown, reader, evVars, probe,
                 bridge, ws, ticks, nserves>>

\* Start (cacher.go:238-242): range over the registered resources.
Start(c) ==
  /\ ~crashed
  /\ caller[c] = Idle
  /\ Call
  /\ caller' = [caller EXCEPT ![c] =
       [Idle EXCEPT !.op = "Start", !.pc = "range", !.todo = Registered]]
  /\ UNCHANGED <<enableSSE, resources, cfg, tupleVars, running, mu, fpc,
                 flocal, loop, sent, sseDown, crashed, reader, evVars, probe,
                 bridge, ws,
                 ticks, nserves>>

\* One iteration of Start's range, or its end (cacher.go:239-242).  Go
\* ranges over a map in no fixed order.
StartRange(c) ==
  /\ ~crashed
  /\ caller[c].op = "Start"
  /\ caller[c].pc = "range"
  /\ cfg' = cfg
  /\ IF caller[c].todo = {}
       THEN /\ caller' = [caller EXCEPT ![c] =
                 Returned("Start", NoRes, "nil", NoCfg)]
            /\ UNCHANGED <<resources, running, crashed>>
       ELSE \E r \in caller[c].todo :
              StartFetcher(c, r, "Start", caller[c].todo \ {r})
  /\ UNCHANGED <<enableSSE, tupleVars, mu, fpc, flocal, loop, sent,
                 sseDown, reader, evVars, probe,
                 bridge, ws, countVars>>

\* Stop (cacher.go:245-253): range over the registered resources.
Stop(c) ==
  /\ ~crashed
  /\ caller[c] = Idle
  /\ Call
  /\ caller' = [caller EXCEPT ![c] =
       [Idle EXCEPT !.op = "Stop", !.pc = "range", !.todo = Registered]]
  /\ UNCHANGED <<enableSSE, resources, cfg, tupleVars, running, mu, fpc,
                 flocal, loop, sent, sseDown, crashed, reader, evVars, probe,
                 bridge, ws,
                 ticks, nserves>>

\* One iteration of Stop's range: StopFetcher on the next resource; or its
\* end: shut the SSE server down if there is one (cacher.go:246-252).
StopRange(c) ==
  /\ ~crashed
  /\ caller[c].op = "Stop"
  /\ caller[c].pc = "range"
  /\ IF caller[c].todo = {}
       THEN /\ caller' = [caller EXCEPT ![c] =
                 Returned("Stop", NoRes, "nil", NoCfg)]
            /\ sseDown' = (sseDown \/ enableSSE)
       ELSE /\ \E r \in caller[c].todo :
                 SendStop(c, r, "Stop", caller[c].todo \ {r})
            /\ UNCHANGED sseDown
  /\ UNCHANGED <<enableSSE, resources, cfg, tupleVars, running, mu, fpc,
                 flocal, loop, sent, crashed, reader, evVars, probe,
                 bridge, ws, countVars>>

\* A manual Resource.Fetch by the owner of a started resource
\* (cacher.go:40): the call, up to the lock.
Fetch(c, r) ==
  /\ ~crashed
  /\ caller[c] = Idle
  /\ running[r]
  /\ Call
  /\ caller' = [caller EXCEPT ![c] =
       [Idle EXCEPT !.op = "Fetch", !.pc = "lock", !.r = r]]
  /\ UNCHANGED <<enableSSE, resources, cfg, tupleVars, running, mu, fpc,
                 flocal, loop, sent, sseDown, crashed, reader, evVars, probe,
                 bridge, ws,
                 ticks, nserves>>

\* The call has returned; the caller is free to make the next one.
Return(c) ==
  /\ ~crashed
  /\ caller[c].pc = "returned"
  /\ caller' = [caller EXCEPT ![c] = Idle]
  /\ UNCHANGED <<enableSSE, resources, cfg, tupleVars, running, mu, fpc,
                 flocal, loop, sent, sseDown, crashed, reader, evVars, probe,
                 bridge, ws,
                 countVars>>

Next ==
  \/ \E c \in Callers : Return(c)
  \/ \E c \in Callers, r \in Res, cf \in Configs : AddResource(c, r, cf)
  \/ \E c \in Callers : StartFetcherSpawn(c)
  \/ \E c \in Callers : CallerFetch(c)
  \/ \E c \in Callers : Start(c)
  \/ \E c \in Callers : StartRange(c)
  \/ \E c \in Callers : Stop(c)
  \/ \E c \in Callers : StopRange(c)
  \/ \E c \in Callers, r \in Res : StopFetcher(c, r)
  \/ \E c \in Callers, r \in Res : Fetch(c, r)
  \/ \E r \in Res : LoopSelect(r)
  \/ \E r \in Res : LoopFetch(r)

Spec == Init /\ [][Next]_vars

\* ------------------------------------------------- ResourceCacher.ServeHTTP
\* The requests of the reader: the alias parameter ("none": no such
\* parameter), the Origin header and the If-None-Match header ("" or
\* EmptyHash: no such header).
Requests ==
  [alias : {"none", "a", "b"}, origin : {"", "o1"},
   inm : {EmptyHash, Sha1Hex(<<>>), Sha1Hex(<<1>>), Sha1Hex(<<1, 0>>)}]

\* (a registry that answers every alias with some resource)
LookupAny(alias) == CHOOSE r \in Res : TRUE

\* resource, ok := c.resources[alias] (cacher.go:302-303): NoRes when !ok.
Lookup(alias) ==
  IF alias \in AliasKeys THEN resources[alias] ELSE NoRes

\* (a handler without the conditional answer)
NotModifiedNever(r, inm) == FALSE

\* match != "" and resource.Hash == match (cacher.go:316-317).
NotModified(r, inm) == inm # EmptyHash /\ Hash[r] = inm

\* (a resource that allows every origin)
IsOriginAllowedAlways(cf, origin) == TRUE

\* (an IsOriginAllowed without its "no need to go any further" return)
IsOriginAllowedAnyOrigin(cf, origin) ==
  IF cf.AllowedOrigins = <<>> THEN TRUE
  ELSE \E i \in 1..Len(cf.AllowedOrigins) : cf.AllowedOrigins[i] = origin

\* Resource.IsOriginAllowed (cacher.go:94-116).
IsOriginAllowed(cf, origin) ==
  IF cf.AllowedOrigins = <<>> THEN TRUE
  ELSE IF origin = "" THEN FALSE
  ELSE \E i \in 1..Len(cf.AllowedOrigins) : cf.AllowedOrigins[i] = origin

\* writeCommonHeaders (cacher.go:331-338) on the headers h of the response.
WriteCommonHeaders(h, origin) ==
  [h EXCEPT !.Vary = @ \o <<"Origin", "Access-Control-Request-Method",
                              "Access-Control-Request-Headers">>,
            !.ACAO = IF origin # "" THEN <<origin>> ELSE @]

\* Resource.WriteHeaders (cacher.go:147-153) on the headers h of the
\* response: Set for every value of every key of the stored header, so the
\* last value of a key is the one that stays.
WriteHeaders(stored, h) ==
  [k \in DOMAIN h |->
     IF stored[k] = <<>> THEN h[k] ELSE <<stored[k][Len(stored[k])]>>]

\* A response that ends the request at once.
Respond(req, r, status, msg) ==
  [ReaderIdle EXCEPT !.pc = "done", !.req = req, !.r = r, !.status = status,
                     !.msg = msg]

readerFrame == <<enableSSE, resources, cfg, tupleVars, running, mu, fpc,
                 flocal, loop, caller, sent, sseDown, crashed, evVars, probe,
                 bridge, ws,
                 ticks, ncalls>>

\* ServeHTTP up to writeCommonHeaders (cacher.go:294-323).  It takes no
\* lock: the map, the resource's Hash and, in the steps below, its Header,
\* StatusCode and Content are read as they are at that moment.
ServeHTTP(req) ==
  /\ ~crashed
  /\ reader.pc \in {"idle", "done"}
  /\ nserves < MaxServes
  /\ nserves' = nserves + 1
  /\ LET r == Lookup(req.alias) IN
     reader' =
       IF req.alias = "none" THEN Respond(req, NoRes, 400, "Missing alias")
       ELSE IF r = NoRes THEN Respond(req, NoRes, 400, "Invalid alias")
       ELSE IF ~IsOriginAllowed(cfg[r], req.origin)
         THEN Respond(req, r, 401, "Invalid Origin")
       ELSE IF NotModified(r, req.inm) THEN Respond(req, r, 304, "")
       ELSE [ReaderIdle EXCEPT !.pc = "headers", !.req = req, !.r = r,
               !.header = WriteCommonHeaders(EmptyHeader, req.origin)]
  /\ UNCHANGED readerFrame

\* resource.WriteHeaders(w) (cacher.go:325).
ServeWriteHeaders ==
  /\ ~crashed
  /\ reader.pc = "headers"
  /\ reader' = [reader EXCEPT !.pc = "status",
                  !.header = WriteHeaders(Header[reader.r], @)]
  /\ UNCHANGED <<readerFrame, nserves>>

\* w.WriteHeader(resource.StatusCode) (cacher.go:327); net/http panics on
\* a code below 100, and the server drops the connection.
ServeWriteStatus ==
  /\ ~crashed
  /\ reader.pc = "status"
  /\ reader' =
       IF StatusCode[reader.r] < 100
         THEN [reader EXCEPT !.pc = "done", !.msg = "panic"]
         ELSE [reader EXCEPT !.pc = "body", !.status = StatusCode[reader.r]]
  /\ UNCHANGED <<readerFrame, nserves>>

\* w.Write(resource.Content) (cacher.go:328).
ServeWriteBody ==
  /\ ~crashed
  /\ reader.pc = "body"
  /\ reader' = [reader EXCEPT !.pc = "done", !.body = Content[reader.r]]
  /\ UNCHANGED <<readerFrame, nserves>>

\* ------------------------------- the subscription endpoint of cacher.go
\* A subscription names an alias and has an Origin.
SubRequests == {req \in Requests : req.inm = EmptyHash}

\* (an endpoint that looks for the alias before it looks at the switch)
SubscribeAliasFirst(enabled, req) ==
  LET r == Lookup(req.alias) IN
  IF req.alias = "none" THEN Respond(req, NoRes, 400, "Missing alias")
  ELSE IF ~enabled
    THEN Respond(req, NoRes, 503, "SSE support not enabled")
  ELSE IF r = NoRes THEN Respond(req, NoRes, 400, "Invalid alias")
  ELSE IF ~IsOriginAllowed(cfg[r], req.origin)
    THEN Respond(req, r, 401, "Invalid Origin")
  ELSE [ReaderIdle EXCEPT !.pc = "stream", !.req = req, !.r = r,
          !.header = WriteCommonHeaders(EmptyHeader, req.origin)]

\* The checks of a subscription, in their order, up to writeCommonHeaders
\* (cacher.go:257-286; part_004:100-127 with "c.server == nil" for the
\* switch): the response that ends the request, or the one that is given
\* to the event-stream server.
Subscribe(enabled, req) ==
  LET r == Lookup(req.alias) IN
  IF ~enabled THEN Respond(req, NoRes, 503, "SSE support not enabled")
  ELSE IF req.alias = "none" THEN Respond(req, NoRes, 400, "Missing alias")
  ELSE IF r = NoRes THEN Respond(req, NoRes, 400, "Invalid alias")
  ELSE IF ~IsOriginAllowed(cfg[r], req.origin)
    THEN Respond(req, r, 401, "Invalid Origin")
  ELSE [ReaderIdle EXCEPT !.pc = "stream", !.req = req, !.r = r,
          !.header = WriteCommonHeaders(EmptyHeader, req.origin)]

\* The handler of SSEHTTPHandler (cacher.go:256-291): the checks, then
\* resource.WriteHeaders(w) and c.sseServer.ServeHTTP(w, r).
SSEHTTPHandler(req) ==
  /\ ~crashed
  /\ reader.pc \in {"idle", "done", "stream"}
  /\ nserves < MaxServes
  /\ nserves' = nserves + 1
  /\ LET s == Subscribe(enableSSE, req) IN
     reader' = IF s.pc = "stream"
                 THEN [s EXCEPT !.header = WriteHeaders(Header[s.r], @)]
                 ELSE s
  /\ UNCHANGED readerFrame

NextSub ==
  \/ \E c \in Callers : Return(c)
  \/ \E c \in Callers, r \in Res, cf \in ValidConfigs : AddResource(c, r, cf)
  \/ \E c \in Callers : StartFetcherSpawn(c)
  \/ \E c \in Callers : CallerFetch(c)
  \/ \E req \in SubRequests : SSEHTTPHandler(req)

SpecSub == Init /\ [][NextSub]_vars

\* ------------------------------------- the cacher with callbacks (part_001)
\* NewResourceCacher (part_001:389-404); the user, or a bridge built on the
\* cacher, may then set the OnResourceUpdated hook.
InitEv ==
  /\ enableSSE = FALSE
  /\ OnResourceUpdated \in {"nil", "hook"}
  /\ Fresh

\* Fetch's locals in this variant (part_001:271-279): no transform.
EvFetchLocals(resp) ==
  [hash |-> Sha1Hex(resp.Body), b |-> resp.Body, status |-> resp.StatusCode,
   header |-> resp.Header]

\* executeUpdateEvents (part_001:317-324): every callback that is not nil.
ExecuteUpdateEvents(r) ==
  updates' = [updates EXCEPT ![r] =
     @ + Cardinality({i \in 1..Len(onUpdateEvents[r]) :
                        onUpdateEvents[r][i] # "nil"})]

\* Resource.Fetch (part_001:253-290) by thread t: no comparison with the
\* stored hash; every response is stored and the callbacks are run.  When
\* the first Fetch of StartFetcher fails, StartFetcher runs them as well
\* (part_001:337-340).
EvFetchBody(r, t) ==
  LET inStartFetcher == t # "loop" /\ caller[t].op # "Fetch"
      failed == /\ UNCHANGED tupleVars
                /\ IF inStartFetcher THEN ExecuteUpdateEvents(r)
                                     ELSE UNCHANGED updates
  IN
  IF NewRequestFails(cfg[r].Method)
    THEN failed /\ FetchReturns(r, t, "newrequest")
    ELSE \/ \E f \in TransportFailures : failed /\ FetchReturns(r, t, f)
         \/ \E resp \in Responses :
              /\ SetTuple(r, Store(Tuple(r), EvFetchLocals(resp), cfg[r]))
              /\ ExecuteUpdateEvents(r)
              /\ FetchReturns(r, t, "nil")

evCoreFrame == <<enableSSE, resources, cfg, running, mu, fpc, flocal, sent,
                 sseDown, crashed, reader, OnResourceUpdated, onUpdateEvents,
                 probe, ws, countVars>>
evFrame == <<evCoreFrame, bridge>>

EvCallerFetch(c) ==
  /\ ~crashed
  /\ caller[c].pc = "lock"
  /\ EvFetchBody(caller[c].r, c)
  /\ UNCHANGED evFrame

EvLoopFetch(r) ==
  /\ ~crashed
  /\ loop[r] = "lock"
  /\ EvFetchBody(r, "loop")
  /\ UNCHANGED evFrame

\* The checks of AddResource (part_001:408-427).
EvValidate(cf) ==
  IF cf.Alias = "" THEN "missing alias"
  ELSE IF resources[cf.Alias] # NoRes THEN "resource already exist"
  ELSE IF cf.Method = "" THEN "missing method"
  ELSE IF cf.URL = "" THEN "missing url"
  ELSE IF cf.Interval = 0 THEN "invalid interval"
  ELSE "nil"

\* AddResource(res, onUpdate) (part_001:407-442) up to the first Fetch of
\* StartFetcher, which is the StartFetcher of cacher.go up to there
\* (part_001:327-336).  The OnResourceAdded hook changes nothing of this
\* state.
EvAddResourceCore(c, r, cf, onUpdate) ==
  /\ ~crashed
  /\ caller[c] = Idle
  /\ Call
  /\ r = NextObject
  /\ IF EvValidate(cf) # "nil"
       THEN /\ caller' = [caller EXCEPT ![c] =
                 Returned("AddResource", NoRes, EvValidate(cf), cf)]
            /\ UNCHANGED <<cfg, resources, running, crashed, onUpdateEvents>>
       ELSE /\ cfg' = [cfg EXCEPT ![r] = cf]
            /\ onUpdateEvents' = [onUpdateEvents EXCEPT ![r] =
                 @ \o <<onUpdate, OnResourceUpdated>>]
            /\ StartFetcher(c, r, "AddResource", {})
  /\ UNCHANGED <<enableSSE, tupleVars, mu, fpc, flocal, loop, sent,
                 sseDown, reader, OnResourceUpdated, updates, probe, ws,
                 ticks, nserves>>

EvAddResource(c, r, cf, onUpdate) ==
  /\ EvAddResourceCore(c, r, cf, onUpdate)
  /\ UNCHANGED bridge

NextEv ==
  \/ \E c \in Callers : Return(c)
  \/ \E c \in Callers, r \in Res, cf \in Configs, onUpdate \in {"nil", "fn"} :
       EvAddResource(c, r, cf, onUpdate)
  \/ \E c \in Callers : StartFetcherSpawn(c)
  \/ \E c \in Callers : EvCallerFetch(c)
  \/ \E c \in Callers, r \in Res : Fetch(c, r)
  \/ \E r \in Res : LoopSelect(r)
  \/ \E r \in Res : EvLoopFetch(r)

SpecEv == InitEv /\ [][NextEv]_vars

\* ---------------------------- the registry of part_001 and its two bridges
BridgeKinds == {"none", "user", "sse", "csse"}

\* const csseCommonChannel (csse.go:10).
CommonChannel == "common"

\* NewResourceCacher (part_001:389-404), NewSSEResourceCacher
\* (part_004:25-97) or NewCSSEResourceCacher (csse.go:25-98): the hooks are
\* set, or not, before any resource is added.
InitHub ==
  /\ enableSSE = FALSE
  /\ FreshCacher
  /\ \E k \in BridgeKinds :
       /\ bridge = [NoBridge EXCEPT !.kind = k]
       /\ OnResourceUpdated = IF k = "none" THEN "nil" ELSE "hook"

\* The hooks each kind of cacher has set.
HasOnResourceAdded == bridge.kind \in {"user", "sse"}
HasOnResourceRemoved == bridge.kind \in {"user", "sse"}
HasOnStarted == bridge.kind \in {"user", "sse", "csse"}
HasOnStopped == bridge.kind \in {"user", "sse", "csse"}

\* A call of a hook, kept for the record.
LogHook(b, name, r) ==
  [b EXCEPT !.hooks = Append(@, [hook |-> name, r |-> r])]

\* server.SendMessage(channel, sse.NewMessage(id, data, "message")).
SendMessage(b, ch, id, data) ==
  [b EXCEPT !.nmsg = @ + 1, !.last = [ch |-> ch, id |-> id, data |-> data]]

\* res.Alias+"-"+res.Hash (csse.go:55, 77).
CommonId(alias, hash) == <<alias, "-">> \o hash

\* U+FFFD, which json.Marshal writes for a byte that is not valid UTF-8.
ReplacementRune == 65533

\* A string once through json.Marshal and back: coerced to valid UTF-8.
\* The bodies here are single bytes each, so a byte above 127 is never
\* part of a longer rune.
JsonString(content) ==
  [i \in 1..Len(content) |->
     IF content[i] < 128 THEN content[i] ELSE ReplacementRune]

\* json.Marshal(sseMessage{Alias, Payload: string(res.Content)})
\* (csse.go:47-50, 69-72), as the subscriber decodes it.
Envelope(alias, content) ==
  [alias |-> alias, payload |-> JsonString(content)]

\* The OnResourceAdded hook (part_004:56-62).
OnResourceAdded(b, alias) ==
  IF b.kind = "sse" /\ alias \notin b.channels
    THEN [b EXCEPT !.channels = @ \cup {alias}]
    ELSE b

\* (a per-alias bridge that publishes every update on one channel)
OnResourceUpdatedOneChannel(b, alias, oldHash, hash, content) ==
  SendMessage(b, "a", hash, content)

\* The OnResourceUpdated hook: of the per-alias bridge (part_004:64-70),
\* and of the shared-channel bridge (csse.go:64-78); oldHash, res.OldHash
\* there, is the hash the resource had before the Fetch.
OnResourceUpdatedHook(b, alias, oldHash, hash, content) ==
  IF b.kind = "sse"
    THEN IF alias \in b.channels
           THEN SendMessage(b, alias, hash, content)
           ELSE b
  ELSE IF b.kind = "csse"
    THEN IF oldHash = hash
           THEN b
           ELSE SendMessage(b, CommonChannel, CommonId(alias, hash),
                            Envelope(alias, content))
  ELSE b

\* The OnResourceRemoved hook (part_004:72-78).
OnResourceRemoved(b, r, alias) ==
  LET logged == LogHook(b, "removed", r) IN
  IF b.kind = "sse" /\ alias \in b.channels
    THEN [logged EXCEPT !.channels = @ \ {alias}]
    ELSE logged

\* server.Restart() and server.Shutdown(): the event-stream server is a
\* library outside this repository; what is left of the channels after
\* either call is its business, so both outcomes are kept.
ServerReset(b) == {b, [b EXCEPT !.channels = {}]}

\* The OnStarted hook (part_004:80-86, csse.go:80-86): the bridges that
\* can result.
OnStarted(b) ==
  LET logged == LogHook(b, "started", NoRes) IN
  IF b.kind = "csse"
    THEN ServerReset([logged EXCEPT !.channels = @ \cup {CommonChannel}])
  ELSE IF b.kind = "sse" THEN ServerReset(logged)
  ELSE {logged}

\* The OnStopped hook (part_004:88-94, csse.go:88-95): the bridges that
\* can result.
OnStopped(b) ==
  LET logged == LogHook(b, "stopped", NoRes) IN
  IF b.kind = "csse"
    THEN ServerReset([logged EXCEPT !.channels = @ \ {CommonChannel}])
  ELSE IF b.kind = "sse" THEN ServerReset(logged)
  ELSE {logged}

\* AddResource (part_001:407-442): the OnResourceAdded hook runs once the
\* checks have passed, before StartFetcher.
HubAddResource(c, r, cf, onUpdate) ==
  /\ EvAddResourceCore(c, r, cf, onUpdate)
  /\ bridge' = IF EvValidate(cf) = "nil" /\ HasOnResourceAdded
                 THEN OnResourceAdded(bridge, cf.Alias)
                 ELSE bridge

\* res.OldHash (csse.go:65): the hash the resource had before the Fetch
\* that runs the hook.  The Resource that has this field is not among the
\* sources; the Fetch of part_001 keeps no such copy.
OldHash(r) == Hash[r]

\* What a Fetch does to the bridge: executeUpdateEvents (part_001:317-324)
\* calls the OnResourceUpdated hook that AddResource chained to the resource.
HubNotify(r) ==
  bridge' =
    IF /\ updates'[r] # updates[r]
       /\ \E i \in 1..Len(onUpdateEvents[r]) : onUpdateEvents[r][i] = "hook"
      THEN OnResourceUpdatedHook(bridge, cfg[r].Alias, OldHash(r), Hash'[r],
                                 Content'[r])
      ELSE bridge

HubCallerFetch(c) ==
  /\ ~crashed
  /\ caller[c].pc = "lock"
  /\ EvFetchBody(caller[c].r, c)
  /\ HubNotify(caller[c].r)
  /\ UNCHANGED evCoreFrame

HubLoopFetch(r) ==
  /\ ~crashed
  /\ loop[r] = "lock"
  /\ EvFetchBody(r, "loop")
  /\ HubNotify(r)
  /\ UNCHANGED evCoreFrame

hubFrame == <<enableSSE, cfg, tupleVars, running, mu, fpc, flocal, loop,
              sent, sseDown, crashed, reader, evVars, probe, ws, ticks,
              nserves>>

\* (a RemoveResource that deletes the mapping before it calls the hook)
RemoveResourceDeletesFirst(c, alias) ==
  LET r == resources[alias] IN
  /\ ~crashed
  /\ caller[c] = Idle
  /\ Call
  /\ IF r = NoRes
       THEN /\ caller' = [caller EXCEPT ![c] =
                 Returned("RemoveResource", NoRes, "no resource found",
                          [NoCfg EXCEPT !.Alias = alias])]
            /\ UNCHANGED resources
       ELSE /\ caller' = [caller EXCEPT ![c] =
                 [Idle EXCEPT !.op = "RemoveResource", !.pc = "delete",
                              !.r = r, !.cf = cfg[r]]]
            /\ resources' = [resources EXCEPT ![alias] = NoRes]
  /\ UNCHANGED <<bridge, hubFrame>>

\* RemoveResource (part_001:445-453): the lookup, which takes no lock, and
\* the OnResourceRemoved hook.  The caller's record keeps the alias asked
\* for.
RemoveResource(c, alias) ==
  LET r == resources[alias] IN
  /\ ~crashed
  /\ caller[c] = Idle
  /\ Call
  /\ IF r = NoRes
       THEN /\ caller' = [caller EXCEPT ![c] =
                 Returned("RemoveResource", NoRes, "no resource found",
                          [NoCfg EXCEPT !.Alias = alias])]
            /\ UNCHANGED bridge
       ELSE /\ caller' = [caller EXCEPT ![c] =
                 [Idle EXCEPT !.op = "RemoveResource", !.pc = "delete",
                              !.r = r, !.cf = cfg[r]]]
            /\ bridge' = IF HasOnResourceRemoved
                           THEN OnResourceRemoved(bridge, r, alias)
                           ELSE bridge
  /\ UNCHANGED <<resources, hubFrame>>

\* (a removal that stops the fetcher of the resource it removes)
RemoveResourceDeleteStops(c) ==
  /\ ~crashed
  /\ caller[c].op = "RemoveResource"
  /\ caller[c].pc = "delete"
  /\ resources' = [resources EXCEPT ![caller[c].cf.Alias] = NoRes]
  /\ running' = [running EXCEPT ![caller[c].r] = FALSE]
  /\ loop' = [loop EXCEPT ![caller[c].r] =
                IF @ = "none" THEN "none" ELSE "exited"]
  /\ caller' = [caller EXCEPT ![c] =
       Returned("RemoveResource", caller[c].r, "nil", caller[c].cf)]
  /\ UNCHANGED <<bridge, enableSSE, cfg, tupleVars, mu, fpc, flocal, sent,
                 sseDown, crashed, reader, evVars, probe, ws, countVars>>

\* "delete(c.resources, alias)" under c.mu, and the return
\* (part_001:455-459).
RemoveResourceDelete(c) ==
  /\ ~crashed
  /\ caller[c].op = "RemoveResource"
  /\ caller[c].pc = "delete"
  /\ resources' = [resources EXCEPT ![caller[c].cf.Alias] = NoRes]
  /\ caller' = [caller EXCEPT ![c] =
       Returned("RemoveResource", caller[c].r, "nil", caller[c].cf)]
  /\ UNCHANGED <<bridge, hubFrame, ncalls>>

\* One iteration of Start's range (part_001:464-466), which is that of
\* cacher.go, or the OnStarted hook and the return (part_001:468-471).
HubStartRange(c) ==
  /\ ~crashed
  /\ caller[c].op = "Start"
  /\ caller[c].pc = "range"
  /\ cfg' = cfg
  /\ IF caller[c].todo = {}
       THEN /\ caller' = [caller EXCEPT ![c] =
                 Returned("Start", NoRes, "nil", NoCfg)]
            /\ bridge' \in IF HasOnStarted THEN OnStarted(bridge) ELSE {bridge}
            /\ UNCHANGED <<resources, running, crashed>>
       ELSE /\ \E r \in caller[c].todo :
                 StartFetcher(c, r, "Start", caller[c].todo \ {r})
            /\ UNCHANGED bridge
  /\ UNCHANGED <<enableSSE, tupleVars, mu, fpc, flocal, loop, sent,
                 sseDown, reader, evVars, probe, ws, countVars>>

\* One iteration of Stop's range (part_001:475-477): StopFetcher, a send
\* on stopFetcher with no test of running (part_001:355-357); or the
\* OnStopped hook and the return (part_001:479-482).
HubStopRange(c) ==
  /\ ~crashed
  /\ caller[c].op = "Stop"
  /\ caller[c].pc = "range"
  /\ IF caller[c].todo = {}
       THEN /\ caller' = [caller EXCEPT ![c] =
                 Returned("Stop", NoRes, "nil", NoCfg)]
            /\ bridge' \in IF HasOnStopped THEN OnStopped(bridge) ELSE {bridge}
       ELSE /\ \E r \in caller[c].todo :
                 SendStop(c, r, "Stop", caller[c].todo \ {r})
            /\ UNCHANGED bridge
  /\ UNCHANGED <<resources, hubFrame, ncalls>>

NextHub ==
  \/ \E c \in Callers : Return(c)
  \/ \E c \in Callers, r \in Res, cf \in ValidConfigs :
       HubAddResource(c, r, cf, "nil")
  \/ \E c \in Callers : StartFetcherSpawn(c)
  \/ \E c \in Callers : HubCallerFetch(c)
  \/ \E c \in Callers, a \in AliasKeys : RemoveResource(c, a)
  \/ \E c \in Callers : RemoveResourceDelete(c)
  \/ \E c \in Callers : Start(c)
  \/ \E c \in Callers : HubStartRange(c)
  \/ \E c \in Callers : Stop(c)
  \/ \E c \in Callers : HubStopRange(c)
  \/ \E r \in Res : LoopSelect(r)
  \/ \E r \in Res : HubLoopFetch(r)

SpecHub == InitHub /\ [][NextHub]_vars

\* The Go scheduler lets every goroutine that can take a step take one.
FairSpecHub == SpecHub /\ WF_vars(NextHub)

\* ------------------------------------ AddResource from two goroutines at once
\* The main of part_008 builds the cacher and calls AddResource in two
\* goroutines ("go rc.AddResource(res, nil)", "go rc.AddResource(res2, nil)"):
\* the steps of the two calls interleave.
InitGo ==
  /\ enableSSE = FALSE
  /\ FreshFor(Goroutines)
  /\ \E k \in {"none", "csse"} :
       /\ bridge = [NoBridge EXCEPT !.kind = k]
       /\ OnResourceUpdated = IF k = "none" THEN "nil" ELSE "hook"

NextGo ==
  \/ \E c \in Goroutines : Return(c)
  \/ \E c \in Goroutines, r \in Res, cf \in ValidConfigs :
       HubAddResource(c, r, cf, "nil")
  \/ \E c \in Goroutines : StartFetcherSpawn(c)
  \/ \E c \in Goroutines : HubCallerFetch(c)
  \/ \E r \in Res : LoopSelect(r)
  \/ \E r \in Res : HubLoopFetch(r)

SpecGo == InitGo /\ [][NextGo]_vars

\* --------------------------------- StartFetcher from two goroutines at once
\* Resource.StartFetcher is exported and takes no lock: the read of
\* r.running (cacher.go:119) and its write (cacher.go:124) are two steps,
\* and another goroutine can run between them.
\* res.StartFetcher() on a Resource the user has just built from the
\* literal cf, or on one built before: the read of the flag.
GoStartFetcher(c, r, cf) ==
  /\ ~crashed
  /\ caller[c] = Idle
  /\ Call
  /\ \/ r = NextObject /\ cfg' = [cfg EXCEPT ![r] = cf]
     \/ cfg[r] # NoCfg /\ cfg' = cfg
  /\ caller' = [caller EXCEPT ![c] =
       IF running[r]
         THEN Returned("StartFetcher", r, "nil", cfg'[r])
         ELSE [Idle EXCEPT !.op = "StartFetcher", !.pc = "set", !.r = r,
                           !.cf = cfg'[r]]]
  /\ UNCHANGED <<enableSSE, resources, tupleVars, running, mu, fpc, flocal,
                 loop, sent, sseDown, crashed, reader, evVars, probe, bridge,
                 ws, ticks, nserves>>

\* "r.running = true" and time.NewTicker (cacher.go:124-125).
GoSetRunning(c) ==
  LET r == caller[c].r IN
  /\ ~crashed
  /\ caller[c].pc = "set"
  /\ running' = [running EXCEPT ![r] = TRUE]
  /\ IF cfg[r].Interval <= 0
       THEN /\ crashed' = TRUE
            /\ caller' = [caller EXCEPT ![c] = [@ EXCEPT !.pc = "panicked"]]
       ELSE /\ caller' = [caller EXCEPT ![c] = [@ EXCEPT !.pc = "lock"]]
            /\ UNCHANGED crashed
  /\ UNCHANGED <<enableSSE, resources, cfg, tupleVars, mu, fpc, flocal, loop,
                 sent, sseDown, reader, evVars, probe, bridge, ws, countVars>>

\* "go func() { ... }()" (cacher.go:128-138) and the return.  loop[r] is
\* the place of one loop of the resource: a loop started next to it runs
\* the same code on the same resource, and the model goes on with the
\* first.
GoSpawn(c) ==
  LET r == caller[c].r IN
  /\ ~crashed
  /\ caller[c].op = "StartFetcher"
  /\ caller[c].pc = "spawn"
  /\ loop' = [loop EXCEPT ![r] = IF @ = "none" THEN "select" ELSE @]
  /\ caller' = [caller EXCEPT ![c] =
       Returned("StartFetcher", r, "nil", cfg[r])]
  /\ UNCHANGED <<enableSSE, resources, cfg, tupleVars, running, mu, fpc,
                 flocal, sent, sseDown, crashed, reader, evVars, probe,
                 bridge, ws, countVars>>

InitFlag ==
  /\ enableSSE = FALSE
  /\ OnResourceUpdated = "nil"
  /\ FreshFor(Goroutines)
  /\ bridge = NoBridge

NextFlag ==
  \/ \E c \in Goroutines : Return(c)
  \/ \E c \in Goroutines, r \in Res, cf \in ValidConfigs :
       GoStartFetcher(c, r, cf)
  \/ \E c \in Goroutines : GoSetRunning(c)
  \/ \E c \in Goroutines : CallerFetch(c)
  \/ \E c \in Goroutines : GoSpawn(c)
  \/ \E r \in Res : LoopSelect(r)
  \/ \E r \in Res : LoopFetch(r)

SpecFlag == InitFlag /\ [][NextFlag]_vars

\* ------------------------- the callbacks and the mutex of part_001's Fetch
\* Fetch of part_001 at the grain of its mutex: Lock, the request and the
\* store, the callbacks, the deferred Unlock.  A callback is "fn", which
\* returns, or "refetch", which calls r.Fetch() on the resource it is given.
\* The cacher here has no registry-wide hook: the chain of a resource holds
\* the one callback AddResource was given, or none.
OwnCallback(r) ==
  LET set == {i \in 1..Len(onUpdateEvents[r]) : onUpdateEvents[r][i] # "nil"}
  IN IF set = {} THEN "nil"
     ELSE onUpdateEvents[r][CHOOSE i \in set : \A j \in set : i <= j]

lkFrame == <<enableSSE, resources, cfg, running, flocal, sent, sseDown,
             crashed, reader, OnResourceUpdated, onUpdateEvents, probe,
             bridge, ws, countVars>>

\* A Fetch returns to the thread t that called it, its mutex released: the
\* loop goes back to its select, a manual Fetch returns, the Fetch a
\* callback made returns to the callback and so to StartFetcher, and the
\* first Fetch of StartFetcher is followed by the callbacks when it failed
\* (part_001:336-339).
LkReturn(r, t, err) ==
  /\ mu' = [mu EXCEPT ![r] = "free"]
  /\ fpc' = [fpc EXCEPT ![r] = "none"]
  /\ IF t = "loop"
       THEN /\ loop' = [loop EXCEPT ![r] = "select"]
            /\ UNCHANGED caller
       ELSE /\ UNCHANGED loop
            /\ caller' = [caller EXCEPT ![t] =
                 IF caller[t].op = "Fetch" THEN Returned("Fetch", r, err, NoCfg)
                 ELSE IF caller[t].pc = "cbfetch" THEN [@ EXCEPT !.pc = "spawn"]
                 ELSE IF err # "nil"
                   THEN [@ EXCEPT !.pc = "events", !.err = err]
                 ELSE [@ EXCEPT !.pc = "spawn", !.err = err]]

\* The request and the assignments (part_001:256-284), by the thread that
\* holds the mutex.
LkRequest(r) ==
  /\ ~crashed
  /\ fpc[r] = "request"
  /\ IF NewRequestFails(cfg[r].Method)
       THEN UNCHANGED tupleVars /\ LkReturn(r, mu[r], "newrequest")
       ELSE \/ \E f \in TransportFailures :
                 UNCHANGED tupleVars /\ LkReturn(r, mu[r], f)
            \/ \E resp \in Responses :
                 /\ SetTuple(r, Store(Tuple(r), EvFetchLocals(resp), cfg[r]))
                 /\ fpc' = [fpc EXCEPT ![r] = "events"]
                 /\ UNCHANGED <<mu, loop, caller>>
  /\ UNCHANGED <<updates, lkFrame>>

\* r.executeUpdateEvents() inside Fetch (part_001:287), before the deferred
\* Unlock.  A callback that calls r.Fetch() comes to r.mu.Lock() while its
\* own thread holds the mutex: sync.Mutex is not reentrant, the Lock waits
\* for an Unlock that only this thread would do.
LkEvents(r) ==
  /\ ~crashed
  /\ fpc[r] = "events"
  /\ IF OwnCallback(r) = "nil"
       THEN UNCHANGED updates /\ LkReturn(r, mu[r], "nil")
     ELSE IF OwnCallback(r) = "refetch"
       THEN /\ updates' = [updates EXCEPT ![r] = @ + 1]
            /\ fpc' = [fpc EXCEPT ![r] = "relock"]
            /\ UNCHANGED <<mu, loop, caller>>
     ELSE /\ updates' = [updates EXCEPT ![r] = @ + 1]
          /\ LkReturn(r, mu[r], "nil")
  /\ UNCHANGED <<tupleVars, lkFrame>>

\* r.executeUpdateEvents() in StartFetcher after a first Fetch that failed
\* (part_001:338): the Fetch has returned and its mutex is released.
GoEvents(c) ==
  LET r == caller[c].r IN
  /\ ~crashed
  /\ caller[c].pc = "events"
  /\ updates' = [updates EXCEPT ![r] =
                   IF OwnCallback(r) = "nil" THEN @ ELSE @ + 1]
  /\ caller' = [caller EXCEPT ![c] =
       [@ EXCEPT !.pc = IF OwnCallback(r) = "refetch" THEN "cblock"
                        ELSE "spawn"]]
  /\ UNCHANGED <<tupleVars, mu, fpc, loop, lkFrame>>

\* r.mu.Lock() of the Fetch such a callback makes.
GoCbLock(c) ==
  LET r == caller[c].r IN
  /\ ~crashed
  /\ caller[c].pc = "cblock"
  /\ mu[r] = "free"
  /\ mu' = [mu EXCEPT ![r] = c]
  /\ fpc' = [fpc EXCEPT ![r] = "request"]
  /\ caller' = [caller EXCEPT ![c] = [@ EXCEPT !.pc = "cbfetch"]]
  /\ UNCHANGED <<tupleVars, updates, loop, lkFrame>>

InitLk ==
  /\ enableSSE = FALSE
  /\ OnResourceUpdated = "nil"
  /\ FreshCacher
  /\ bridge = NoBridge

NextLk ==
  \/ \E c \in Callers : Return(c)
  \/ \E c \in Callers, r \in Res, cf \in ValidConfigs,
        onUpdate \in {"nil", "fn", "refetch"} :
       EvAddResource(c, r, cf, onUpdate)
  \/ \E c \in Callers, r \in Res : Fetch(c, r)
  \/ \E c \in Callers : CallerLock(c)
  \/ \E r \in Res : LoopLock(r)
  \/ \E r \in Res : LkRequest(r)
  \/ \E r \in Res : LkEvents(r)
  \/ \E c \in Callers : GoEvents(c)
  \/ \E c \in Callers : GoCbLock(c)
  \/ \E c \in Callers : StartFetcherSpawn(c)
  \/ \E r \in Res : LoopSelect(r)

SpecLk == InitLk /\ [][NextLk]_vars

\* ------------------------- callbacks that change the resource (part_001)
\* The onUpdate callback of the test "simple transform fn"
\* (cacher_test.go:284-303) on the tuple t of the resource: it leaves a
\* content it cannot decode, here the empty one, and else replaces the
\* content, the hash, Content-Length and the Etag.
OnUpdateTransform(t) ==
  IF t.Content = <<>> THEN t
  ELSE LET b == ApplyTransform("pad", t.Content) IN
       [t EXCEPT !.Content = b, !.Hash = Sha1Hex(b),
                 !.Header.ContentLength = <<Len(b)>>,
                 !.Header.Etag = <<Sha1Hex(b)>>]

\* "e(r)" (part_001:322) for the callback e, on st, the resource's tuple and
\* the bridge: the callback of the user may change the resource, the hook
\* of the registry is given the resource as it then is.
RunOne(e, alias, oldHash, st) ==
  LET seen == [cb |-> e, content |-> st.tuple.Content]
      logged == [st.bridge EXCEPT !.ran = Append(@, seen)] IN
  IF e = "transform"
    THEN [tuple |-> OnUpdateTransform(st.tuple), bridge |-> logged]
  ELSE IF e = "hook"
    THEN [tuple |-> st.tuple,
          bridge |-> OnResourceUpdatedHook(logged, alias, oldHash,
                                           st.tuple.Hash, st.tuple.Content)]
  ELSE [tuple |-> st.tuple, bridge |-> logged]

\* executeUpdateEvents (part_001:317-324) from the i-th callback on.
RECURSIVE RunFrom(_, _, _, _, _)
RunFrom(i, events, alias, oldHash, st) ==
  IF i > Len(events) THEN st
  ELSE IF events[i] = "nil"
    THEN RunFrom(i + 1, events, alias, oldHash, st)
  ELSE RunFrom(i + 1, events, alias, oldHash,
               RunOne(events[i], alias, oldHash, st))

\* Resource.Fetch (part_001:253-290) with callbacks that act: the response
\* is stored, then the callbacks run on what is stored; the failed first
\* Fetch of StartFetcher runs them on what was there (part_001:336-339).
CbFetchBody(r, t) ==
  LET inStartFetcher == t # "loop" /\ caller[t].op # "Fetch"
      Ran(tp) == RunFrom(1, onUpdateEvents[r], cfg[r].Alias, OldHash(r),
                         [tuple |-> tp,
                          bridge |-> [bridge EXCEPT !.ran = <<>>]])
      Notified(tp) == /\ SetTuple(r, Ran(tp).tuple)
                      /\ bridge' = Ran(tp).bridge
                      /\ ExecuteUpdateEvents(r)
      failed == IF inStartFetcher THEN Notified(Tuple(r))
                ELSE UNCHANGED <<tupleVars, updates, bridge>>
  IN
  IF NewRequestFails(cfg[r].Method)
    THEN failed /\ FetchReturns(r, t, "newrequest")
    ELSE \/ \E f \in TransportFailures : failed /\ FetchReturns(r, t, f)
         \/ \E resp \in Responses :
              /\ Notified(Store(Tuple(r), EvFetchLocals(resp), cfg[r]))
              /\ FetchReturns(r, t, "nil")

CbCallerFetch(c) ==
  /\ ~crashed
  /\ caller[c].pc = "lock"
  /\ CbFetchBody(caller[c].r, c)
  /\ UNCHANGED evCoreFrame

CbLoopFetch(r) ==
  /\ ~crashed
  /\ loop[r] = "lock"
  /\ CbFetchBody(r, "loop")
  /\ UNCHANGED evCoreFrame

\* AddResource (part_001:407-442) called again with a Resource the cacher
\* was given before, such as the one RemoveResource returned: the checks
\* are the same, the callbacks are appended to those the resource has, and
\* StartFetcher returns at once when the resource is still running.
AddResourceAgain(c, r, onUpdate) ==
  /\ ~crashed
  /\ caller[c] = Idle
  /\ Call
  /\ cfg[r] # NoCfg
  /\ cfg' = cfg
  /\ IF EvValidate(cfg[r]) # "nil"
       THEN /\ caller' = [caller EXCEPT ![c] =
                 Returned("AddResource", NoRes, EvValidate(cfg[r]), cfg[r])]
            /\ UNCHANGED <<resources, running, crashed, onUpdateEvents,
                           bridge>>
       ELSE /\ onUpdateEvents' = [onUpdateEvents EXCEPT ![r] =
                 @ \o <<onUpdate, OnResourceUpdated>>]
            /\ bridge' = IF HasOnResourceAdded
                           THEN OnResourceAdded(bridge, cfg[r].Alias)
                           ELSE bridge
            /\ StartFetcher(c, r, "AddResource", {})
  /\ UNCHANGED <<enableSSE, tupleVars, mu, fpc, flocal, loop, sent,
                 sseDown, reader, OnResourceUpdated, updates, probe, ws,
                 ticks, nserves>>

\* A cacher with no registry-wide hook, or the per-alias bridge.
InitCb ==
  /\ enableSSE = FALSE
  /\ FreshCacher
  /\ \E k \in {"none", "sse"} :
       /\ bridge = [NoBridge EXCEPT !.kind = k]
       /\ OnResourceUpdated = IF k = "none" THEN "nil" ELSE "hook"

NextCb ==
  \/ \E c \in Callers : Return(c)
  \/ \E c \in Callers, r \in Res, cf \in ValidConfigs,
        onUpdate \in {"nil", "transform"} : HubAddResource(c, r, cf, onUpdate)
  \/ \E c \in Callers, r \in Res, onUpdate \in {"nil", "transform"} :
       AddResourceAgain(c, r, onUpdate)
  \/ \E c \in Callers, a \in AliasKeys : RemoveResource(c, a)
  \/ \E c \in Callers : RemoveResourceDelete(c)
  \/ \E c \in Callers : StartFetcherSpawn(c)
  \/ \E c \in Callers : CbCallerFetch(c)
  \/ \E r \in Res : LoopSelect(r)
  \/ \E r \in Res : CbLoopFetch(r)

SpecCb == InitCb /\ [][NextCb]_vars

\* --------------------------------- the shared-channel bridge (csse.go)
\* NewCSSEResourceCacher (csse.go:25-98).
InitCommon ==
  /\ enableSSE = FALSE
  /\ FreshCacher
  /\ bridge = [NoBridge EXCEPT !.kind = "csse"]
  /\ OnResourceUpdated = "hook"

\* The endpoint looks at the Origin of a request and at nothing else.
CommonRequests == {req \in Requests : req.alias = "none" /\ req.inm = EmptyHash}

\* The resources given to the bridge: one that allows every origin and
\* one that allows "o1".
CommonConfigs == {cf \in ValidConfigs : cf.Method = "GET"}

\* The keys of the registry map.
Keys == {a \in AliasKeys : resources[a] # NoRes}

commonFrame == <<enableSSE, resources, cfg, tupleVars, running, mu, fpc,
                 flocal, loop, caller, sent, sseDown, evVars, probe, ws,
                 ticks, ncalls>>

\* (an endpoint that admits a request when some resource allows its origin)
RefusingWhenAll(origin) ==
  IF \A r \in Registered : ~IsOriginAllowed(cfg[r], origin)
    THEN Registered ELSE {}

\* The resources at which the range of the endpoint can stop
\* (csse.go:107-114): those that refuse the origin.
Refusing(origin) ==
  {r \in Registered : ~IsOriginAllowed(cfg[r], origin)}

\* CSSEResourceCacher.ServeHTTP (csse.go:100-120); c.server is set by the
\* constructor.  The range stops at the first resource that refuses the
\* origin, in the order of the map, which is any order.  An admitted request
\* is given to the event-stream server, which calls OnClientConnect.
CommonServeHTTP(req) ==
  /\ ~crashed
  /\ bridge.client.pc \in {"none", "connected"}
  /\ nserves < MaxServes
  /\ nserves' = nserves + 1
  /\ IF Refusing(req.origin) # {}
       THEN /\ \E r \in Refusing(req.origin) :
                 reader' = Respond(req, r, 401, "Invalid Origin for alias")
            /\ bridge' = [bridge EXCEPT !.client = NoClient]
       ELSE /\ reader' = [ReaderIdle EXCEPT !.pc = "stream", !.req = req,
                 !.header = WriteCommonHeaders(EmptyHeader, req.origin)]
            /\ bridge' = [bridge EXCEPT !.client =
                 [NoClient EXCEPT !.pc = "range", !.start = Keys,
                                  !.snap = resources]]
  /\ UNCHANGED <<commonFrame, crashed>>

\* OnClientConnect, "for _, res := range c.resources" and the envelope
\* (csse.go:46-53): no lock is taken.  A key deleted before the range
\* reaches it is not produced; one inserted during the range may be.  The
\* runtime may stop the program when the range meets a write of the map.
ReplayRead ==
  LET cl == bridge.client IN
  /\ ~crashed
  /\ cl.pc = "range"
  /\ \/ /\ \E a \in Keys \ cl.visited :
             bridge' = [bridge EXCEPT !.client =
               [cl EXCEPT !.pc = "send", !.visited = @ \cup {a},
                          !.r = resources[a],
                          !.content = Content[resources[a]],
                          !.snap = resources]]
        /\ UNCHANGED crashed
     \/ /\ cl.snap # resources
        /\ crashed' = TRUE
        /\ UNCHANGED bridge
  /\ UNCHANGED <<commonFrame, reader, nserves>>

\* The id of a replayed event (csse.go:55).
ReplayId(alias, hash) == CommonId(alias, hash)

\* client.SendMessage(sse.NewMessage(res.Alias+"-"+res.Hash, ...))
\* (csse.go:55): res.Hash is read here, after the envelope was made.
ReplaySend ==
  LET cl == bridge.client
      alias == cfg[cl.r].Alias IN
  /\ ~crashed
  /\ cl.pc = "send"
  /\ bridge' = [bridge EXCEPT !.client =
       [cl EXCEPT !.pc = "range", !.r = NoRes, !.content = <<>>,
                  !.nevents = @ + 1,
                  !.event = [ch |-> CommonChannel,
                             id |-> ReplayId(alias, Hash[cl.r]),
                             data |-> Envelope(alias, cl.content)]]]
  /\ UNCHANGED <<commonFrame, crashed, reader, nserves>>

\* The range is over (csse.go:56-57): every key that was in the map when
\* it began, and still is, has been produced.  The subscriber is
\* connected, and what is kept of the replay is the number of its events.
ReplayEnd ==
  LET cl == bridge.client IN
  /\ ~crashed
  /\ cl.pc = "range"
  /\ (cl.start \cap Keys) \subseteq cl.visited
  /\ bridge' = [bridge EXCEPT !.client =
       [NoClient EXCEPT !.pc = "connected", !.nevents = cl.nevents]]
  /\ UNCHANGED <<commonFrame, crashed, reader, nserves>>

\* The loop's select (part_001:341-350), for as many ticks as this
\* specification delivers.
CommonLoopSelect(r) ==
  /\ ticks < MaxReplayTicks
  /\ LoopSelect(r)

NextCommon ==
  \/ \E c \in Callers : Return(c)
  \/ \E c \in Callers, r \in Res, cf \in CommonConfigs :
       HubAddResource(c, r, cf, "nil")
  \/ \E c \in Callers : StartFetcherSpawn(c)
  \/ \E c \in Callers : HubCallerFetch(c)
  \/ \E c \in Callers, a \in AliasKeys : RemoveResource(c, a)
  \/ \E c \in Callers : RemoveResourceDelete(c)
  \/ \E r \in Res : CommonLoopSelect(r)
  \/ \E r \in Res : HubLoopFetch(r)
  \/ \E req \in CommonRequests : CommonServeHTTP(req)
  \/ ReplayRead
  \/ ReplaySend
  \/ ReplayEnd

SpecCommon == InitCommon /\ [][NextCommon]_vars

\* ------------------------------------------------- one resource, its readers
\* The registration of the first resource only.
AddFirst(c, cf) == AddResource(c, "r1", cf)

NextRace ==
  \/ \E c \in Callers : Return(c)
  \/ \E c \in Callers, cf \in ValidConfigs : AddFirst(c, cf)
  \/ \E c \in Callers : StartFetcherSpawn(c)
  \/ \E r \in Res : LoopSelect(r)
  \/ \E c \in Callers : CallerLock(c)
  \/ \E r \in Res : LoopLock(r)
  \/ \E r \in Res : FetchRequest(r)
  \/ \E r \in Res : FetchCompare(r)
  \/ \E r \in Res : FetchStoreHash(r)
  \/ \E r \in Res : FetchStoreContent(r)
  \/ \E r \in Res : FetchStoreStatusCode(r)
  \/ \E r \in Res : FetchStoreHeader(r)
  \/ \E r \in Res : FetchStoreEtag(r)
  \/ \E r \in Res : FetchStoreCacheControl(r)
  \/ \E r \in Res : FetchNotify(r)
  \/ \E req \in Requests : ServeHTTP(req)
  \/ ServeWriteHeaders
  \/ ServeWriteStatus
  \/ ServeWriteBody

SpecRace == Init /\ [][NextRace]_vars

\* ---------------------------- the single-resource cacher (unnamed/part_002)
\* The cacher of part_002 is one object with one cache; it is the object
\* "r1" here, its cache, header and statusCode are Content, Header and
\* StatusCode of "r1", and its active flag is running.  Fetch stores the
\* body (never nil, ioutil.ReadAll returns a slice) and the status together,
\* and a response has a status of 100 or more: the cache is nil exactly
\* while the status code is 0.
TheCacher == "r1"
CacheIsNil == StatusCode[TheCacher] = 0

oldFrame == <<enableSSE, resources, cfg, Hash, mu, fpc, flocal, loop, caller,
              sent, sseDown, crashed, evVars, probe,
              bridge, ws, ncalls>>

\* ResourceCacher.Fetch (part_002:28-54), under its lock from end to end:
\* an error leaves the cache as it is, a response replaces it.
OldFetch(err) ==
  \/ /\ err \in {"newrequest"} \cup TransportFailures
     /\ UNCHANGED <<Content, StatusCode, Header>>
  \/ /\ err = "nil"
     /\ \E resp \in Responses :
          /\ Content' = [Content EXCEPT ![TheCacher] = resp.Body]
          /\ Header' = [Header EXCEPT ![TheCacher] = resp.Header]
          /\ StatusCode' = [StatusCode EXCEPT ![TheCacher] = resp.StatusCode]

OldFetchErrors == {"nil", "newrequest"} \cup TransportFailures

\* Start (part_002:57-63) sets the flag; each turn of its loop fetches.
OldStart ==
  /\ ~running[TheCacher]
  /\ running' = [running EXCEPT ![TheCacher] = TRUE]
  /\ UNCHANGED <<oldFrame, Content, StatusCode, Header, reader, ticks,
                 nserves>>

OldLoopFetch ==
  /\ running[TheCacher]
  /\ ticks < MaxTicks
  /\ ticks' = ticks + 1
  /\ \E err \in OldFetchErrors : OldFetch(err)
  /\ UNCHANGED <<oldFrame, running, reader, nserves>>

\* Stop (part_002:66-68).
OldStop ==
  /\ running[TheCacher]
  /\ running' = [running EXCEPT ![TheCacher] = FALSE]
  /\ UNCHANGED <<oldFrame, Content, StatusCode, Header, reader, ticks,
                 nserves>>

\* ServeHTTP's test of the cache (part_002:73-74).
OldServeHTTP ==
  /\ reader.pc \in {"idle", "done"}
  /\ nserves < MaxServes
  /\ nserves' = nserves + 1
  /\ reader' = [ReaderIdle EXCEPT !.r = TheCacher,
                  !.pc = IF CacheIsNil THEN "fetch" ELSE "status"]
  /\ UNCHANGED <<oldFrame, Content, StatusCode, Header, running, ticks>>

\* The handler's own Fetch on a nil cache (part_002:75-84): on an error the
\* stored header is copied and 502 is written; the WriteHeader and the
\* Write that follow (part_002:87-88) then add nothing.
OldServeFetch ==
  /\ reader.pc = "fetch"
  /\ \E err \in OldFetchErrors :
       /\ OldFetch(err)
       /\ reader' =
            IF err # "nil"
              THEN [reader EXCEPT !.pc = "done", !.status = 502,
                      !.header = WriteHeaders(Header[TheCacher], @),
                      !.body = Content[TheCacher]]
              ELSE [reader EXCEPT !.pc = "status"]
  /\ UNCHANGED <<oldFrame, running, ticks, nserves>>

\* w.WriteHeader(c.statusCode) and w.Write(c.cache) (part_002:87-88) are
\* the last two steps of the handler of cacher.go as well.
NextOld ==
  \/ OldStart
  \/ OldLoopFetch
  \/ OldStop
  \/ OldServeHTTP
  \/ OldServeFetch
  \/ ServeWriteStatus
  \/ ServeWriteBody

SpecOld == Init /\ [][NextOld]_vars

\* ------------------------------------------- Resource.IsOriginAllowed alone
\* The strings an allow-list can hold and an Origin header can carry; Go
\* compares strings byte by byte, so "O1" is not "o1".
OriginStrings == {"", "o1", "O1", "o2"}

RECURSIVE ListsUpTo(_)
ListsUpTo(n) ==
  IF n = 0 THEN {<<>>}
  ELSE LET shorter == ListsUpTo(n - 1) IN
       shorter \cup {Append(l, o) : l \in shorter, o \in OriginStrings}

\* The allow-lists: a nil slice and an empty one have the same length, 0,
\* and are both the empty list here.
AllowLists == ListsUpTo(MaxOrigins)

\* A call res.IsOriginAllowed(origin) on a resource with that allow-list.
CallIsOriginAllowed(list, origin) ==
  /\ probe' = [fn |-> "IsOriginAllowed", list |-> list, origin |-> origin,
               out |-> IsOriginAllowed([NoCfg EXCEPT !.AllowedOrigins = list],
                                       origin)]
  /\ UNCHANGED <<enableSSE, resources, cfg, tupleVars, running, mu, fpc,
                 flocal, loop, caller, sent, sseDown, crashed, reader,
                 evVars, bridge, ws, countVars>>

NextFn ==
  \E list \in AllowLists, origin \in OriginStrings \cup {"o3"} :
    CallIsOriginAllowed(list, origin)

SpecFn == Init /\ [][NextFn]_vars

\* ------------------------------- WebAppProxy and the WebSocketReverseProxy
\* strings.ToLower on the header values of the requests below.
ToLower(str) ==
  CASE str = "Upgrade" -> "upgrade"
    [] str = "UPGRADE" -> "upgrade"
    [] str = "WebSocket" -> "websocket"
    [] str = "keep-alive, Upgrade" -> "keep-alive, upgrade"
    [] OTHER -> str

WsRequests ==
  [Connection : {<<>>, <<"upgrade">>, <<"Upgrade">>, <<"UPGRADE">>,
                 <<"keep-alive">>, <<"keep-alive, Upgrade">>,
                 <<"keep-alive", "Upgrade">>},
   Upgrade : {<<>>, <<"websocket">>, <<"WebSocket">>, <<"h2c">>, <<"">>,
              <<"h2c", "websocket">>}]

\* (a detection that takes any Upgrade header for a websocket)
IsWebSocketAnyUpgrade(req) ==
  LET connHdr == IF Len(req.Connection) > 0 THEN req.Connection[1] ELSE "" IN
  ToLower(connHdr) = "upgrade" /\ Len(req.Upgrade) > 0

\* IsWebSocket (part_005:89-105).
IsWebSocket(req) ==
  LET connHdr == IF Len(req.Connection) > 0 THEN req.Connection[1] ELSE "" IN
  IF ToLower(connHdr) = "upgrade"
    THEN IF Len(req.Upgrade) > 0
           THEN ToLower(req.Upgrade[1]) = "websocket"
           ELSE FALSE
    ELSE FALSE

wsFrame == <<enableSSE, resources, cfg, tupleVars, running, mu, fpc, flocal,
             loop, caller, sent, sseDown, crashed, reader, evVars, probe,
             bridge, ticks, ncalls>>

\* The copy tasks of the request before, still running when the next
\* request comes: they hold their own connections and go on for ever or
\* end later, apart from the proxy.
StillCopying ==
  (IF ws.cu = "run" THEN 1 ELSE 0) + (IF ws.uc = "run" THEN 1 ELSE 0)

\* The proxy as a new request finds it, the connection and its socket
\* being those given.
NewRequest(req, hijacker, conn, up, upData) ==
  [NoWs EXCEPT !.req = req, !.hijacker = hijacker, !.conn = conn,
               !.up = up, !.upData = upData,
               !.leaked = ws.leaked + StillCopying]

\* WebAppProxy.ServeHTTP (proxy.go:18-27): an upgrade request goes to a
\* WebSocketReverseProxy built for it, any other request to the standard
\* reverse proxy, which is not followed further.
WebAppServeHTTP(req, hijacker) ==
  /\ ws.pc \in {"idle", "done"}
  /\ nserves < MaxServes
  /\ nserves' = nserves + 1
  /\ ws' = IF IsWebSocket(req)
             THEN [NewRequest(req, hijacker, "nil", "none", FALSE)
                     EXCEPT !.route = "duplex", !.pc = "connect"]
             ELSE [NewRequest(req, hijacker, "nil", "none", FALSE)
                     EXCEPT !.route = "standard", !.pc = "done"]
  /\ UNCHANGED wsFrame

\* A request given to the same WebSocketReverseProxy as the one before
\* (part_005:37): ws.Connection is what that request left.
WsServeHTTP(hijacker) ==
  /\ ws.pc = "done"
  /\ ws.route \in {"duplex", "direct"}
  /\ nserves < MaxServes
  /\ nserves' = nserves + 1
  /\ ws' = [NewRequest(NoWsReq, hijacker, ws.conn, ws.up, ws.upData)
              EXCEPT !.route = "direct", !.pc = "connect"]
  /\ UNCHANGED wsFrame

\* "if ws.Connection == nil { ws.connect() ... }" (part_005:38-43, 28-35).
WsConnect ==
  /\ ws.pc = "connect"
  /\ IF ws.conn # "nil"
       THEN ws' = [ws EXCEPT !.pc = "hijacker", !.req = NoWsReq]
       ELSE \E dialed \in BOOLEAN :
              ws' = IF dialed
                      THEN [ws EXCEPT !.pc = "hijacker", !.req = NoWsReq,
                                      !.conn = "set", !.up = "open"]
                      ELSE [ws EXCEPT !.pc = "done", !.req = NoWsReq,
                                      !.status = 502]
  /\ UNCHANGED <<wsFrame, nserves>>

\* (a bridge that goes on to Hijack whatever the writer is)
WsHijackerUnchecked ==
  /\ ws.pc = "hijacker"
  /\ ws' = [ws EXCEPT !.pc = "hijack"]
  /\ UNCHANGED <<wsFrame, nserves>>

\* "hj, ok := w.(http.Hijacker)" (part_005:45-49).
WsHijacker ==
  /\ ws.pc = "hijacker"
  /\ ws' = IF ws.hijacker THEN [ws EXCEPT !.pc = "hijack"]
                          ELSE [ws EXCEPT !.pc = "done", !.status = 500]
  /\ UNCHANGED <<wsFrame, nserves>>

\* "nc, _, err := hj.Hijack()" (part_005:51-56): on an error nothing is
\* answered; "defer nc.Close()" takes effect from here on.
WsHijack ==
  /\ ws.pc = "hijack"
  /\ \E ok \in BOOLEAN :
       ws' = IF ok THEN [ws EXCEPT !.pc = "write", !.hijacked = TRUE]
                   ELSE [ws EXCEPT !.pc = "done"]
  /\ UNCHANGED <<wsFrame, nserves>>

\* "err = r.Write(ws.Connection)" (part_005:58-62): it fails on a broken
\* socket and may fail on one the upstream has closed; the return closes nc.
WsWriteRequest ==
  /\ ws.pc = "write"
  /\ \E ok \in BOOLEAN :
       /\ ws.up = "open" => ok
       /\ ws.up = "reset" => ~ok
       /\ ws' = IF ok THEN [ws EXCEPT !.pc = "go1", !.written = TRUE]
                      ELSE [ws EXCEPT !.pc = "done", !.ncClosed = TRUE]
  /\ UNCHANGED <<wsFrame, nserves>>

\* "go cp(ws.Connection, nc)" (part_005:64-72).
WsGoClientToUpstream ==
  /\ ws.pc = "go1"
  /\ ws' = [ws EXCEPT !.pc = "go2", !.cu = "run"]
  /\ UNCHANGED <<wsFrame, nserves>>

\* "go cp(nc, ws.Connection)" (part_005:73).
WsGoUpstreamToClient ==
  /\ ws.pc = "go2"
  /\ ws' = [ws EXCEPT !.pc = "wait", !.uc = "run"]
  /\ UNCHANGED <<wsFrame, nserves>>

\* "<-errc" (part_005:74): it waits for an error to be in the channel.
WsWait ==
  /\ ws.pc = "wait"
  /\ ws.errc > 0
  /\ ws' = [ws EXCEPT !.pc = "release", !.errc = @ - 1]
  /\ UNCHANGED <<wsFrame, nserves>>

\* "ws.Connection = nil" and the return, which closes nc (part_005:75-76,
\* 56); the upstream socket is not closed.
WsRelease ==
  /\ ws.pc = "release"
  /\ ws' = [ws EXCEPT !.pc = "done", !.conn = "nil", !.ncClosed = TRUE]
  /\ UNCHANGED <<wsFrame, nserves>>

\* cp(ws.Connection, nc) (part_005:65-71): io.Copy reads nc and writes the
\* upstream; at the end of the stream it returns nil and nothing is sent
\* to errc; an error of the read or of the write is sent.
CopyClientToUpstream ==
  /\ ws.cu = "run"
  /\ IF ws.ncClosed \/ ws.cli = "reset"
       THEN ws' = [ws EXCEPT !.cu = "done", !.errc = @ + 1]
     ELSE IF ws.cliData
       THEN ws' = IF ws.up = "reset"
                    THEN [ws EXCEPT !.cu = "done", !.errc = @ + 1]
                    ELSE [ws EXCEPT !.cliData = FALSE]
     ELSE /\ ws.cli = "eof"
          /\ ws' = [ws EXCEPT !.cu = "done"]
  /\ UNCHANGED <<wsFrame, nserves>>

\* cp(nc, ws.Connection) (part_005:65-71): io.Copy reads the upstream and
\* writes nc.
CopyUpstreamToClient ==
  /\ ws.uc = "run"
  /\ IF ws.up = "reset"
       THEN ws' = [ws EXCEPT !.uc = "done", !.errc = @ + 1]
     ELSE IF ws.upData
       THEN ws' = IF ws.ncClosed \/ ws.cli = "reset"
                    THEN [ws EXCEPT !.uc = "done", !.errc = @ + 1]
                    ELSE [ws EXCEPT !.upData = FALSE]
     ELSE /\ ws.up = "eof"
          /\ ws' = [ws EXCEPT !.uc = "done"]
  /\ UNCHANGED <<wsFrame, nserves>>

\* The client, once its connection is the raw stream: it sends bytes, ends
\* its stream ("eof") or its connection breaks ("reset").
ClientSends ==
  /\ ws.hijacked /\ ~ws.ncClosed
  /\ ws.cli = "open" /\ ~ws.cliData
  /\ ws' = [ws EXCEPT !.cliData = TRUE]
  /\ UNCHANGED <<wsFrame, nserves>>

ClientCloses(how) ==
  /\ ws.hijacked /\ ~ws.ncClosed
  /\ ws.cli = "open"
  /\ ws' = [ws EXCEPT !.cli = how]
  /\ UNCHANGED <<wsFrame, nserves>>

\* The upstream, on the socket that was dialed.
UpstreamSends ==
  /\ ws.up = "open" /\ ~ws.upData
  /\ ws' = [ws EXCEPT !.upData = TRUE]
  /\ UNCHANGED <<wsFrame, nserves>>

UpstreamCloses(how) ==
  /\ ws.up = "open"
  /\ ws' = [ws EXCEPT !.up = how]
  /\ UNCHANGED <<wsFrame, nserves>>

\* The steps of the proxy, and those of its two peers.
WsStep ==
  \/ WsConnect
  \/ WsHijacker
  \/ WsHijack
  \/ WsWriteRequest
  \/ WsGoClientToUpstream
  \/ WsGoUpstreamToClient
  \/ WsWait
  \/ WsRelease
  \/ CopyClientToUpstream
  \/ CopyUpstreamToClient

NextWs ==
  \/ \E req \in WsRequests, hijacker \in BOOLEAN : WebAppServeHTTP(req, hijacker)
  \/ \E hijacker \in BOOLEAN : WsServeHTTP(hijacker)
  \/ WsConnect
  \/ WsHijacker
  \/ WsHijack
  \/ WsWriteRequest
  \/ WsGoClientToUpstream
  \/ WsGoUpstreamToClient
  \/ WsWait
  \/ WsRelease
  \/ CopyClientToUpstream
  \/ CopyUpstreamToClient
  \/ ClientSends
  \/ \E how \in {"eof", "reset"} : ClientCloses(how)
  \/ UpstreamSends
  \/ \E how \in {"eof", "reset"} : UpstreamCloses(how)

SpecWs == Init /\ [][NextWs]_vars

\* The scheduler runs every goroutine that can take a step; the client and
\* the upstream send and close when they please, or never.
FairSpecWs == SpecWs /\ WF_vars(WsStep)

\* --------------------------------------------------------- fair scheduling
\* Go schedules every goroutine that can run, and a receiver at a select
\* with a sender waiting takes the value.
FairSpec ==
  /\ Spec
  /\ WF_vars(Next)
  /\ \A r \in Res : SF_vars(LoopSelect(r))

\* ------------------------------------------------------------------ claims
Populated(r) ==
  /\ Hash[r] # EmptyHash
  /\ Hash[r] = Sha1Hex(Content[r])
  /\ StatusCode[r] # 0
  /\ Header[r] # EmptyHeader

\* The step in which caller c's AddResource returns the resource.
AddResourceReturns(c) ==
  /\ caller[c].op = "AddResource"
  /\ caller[c].pc = "spawn"
  /\ caller'[c].pc = "returned"

CallerFetchEnds(c) ==
  /\ caller[c].pc = "lock"
  /\ caller'[c].pc \in {"spawn", "returned"}

\* C2, as stated, for the Fetches of a resource that holds content: a
\* successful Fetch that leaves the stored content as it was (the body is
\* byte-identical) changes neither hash, status nor header and runs no
\* callback and sends no message.
C2_AsStated ==
  [][\A c \in Callers :
       LET r == caller[c].r IN
       (CallerFetchEnds(c) /\ caller'[c].err = "nil"
          /\ Hash[r] # EmptyHash /\ Content'[r] = Content[r])
         => /\ Tuple(r)' = Tuple(r)
            /\ updates'[r] = updates[r]
            /\ sent'[r] = sent[r]]_vars

\* The step in which caller c calls AddResource with a literal cf.
AddResourceCalled(c) ==
  /\ caller[c] = Idle
  /\ caller'[c].op = "AddResource"

Rejected(c) ==
  /\ caller'[c].pc = "returned"
  /\ caller'[c].err # "nil"
  /\ caller'[c].r = NoRes
  /\ resources' = resources
  /\ running' = running
  /\ loop' = loop
  /\ ~crashed'

\* C3, as stated, for literals with nothing else wrong: an AddResource
\* whose alias is registered returns an error and starts nothing, and a
\* registered alias keeps its resource.
C3_AsStated ==
  [][/\ \A c \in Callers :
          (AddResourceCalled(c) /\ caller'[c].cf \in ValidConfigs
             /\ resources[caller'[c].cf.Alias] # NoRes)
            => Rejected(c)
     /\ \A a \in AliasKeys :
          resources[a] # NoRes => resources'[a] = resources[a]]_vars

\* C4, as stated: an AddResource with an empty alias, method or url, or an
\* interval that is not greater than zero, returns an error, registers
\* nothing and starts nothing.
C4_AsStated ==
  [][\A c \in Callers :
       LET cf == caller'[c].cf IN
       (AddResourceCalled(c)
          /\ (cf.Alias = "" \/ cf.Method = "" \/ cf.URL = "" \/ cf.Interval <= 0))
         => Rejected(c)]_vars

\* C5, as stated: once StopFetcher waits at its send on a running resource,
\* the loop takes the signal, the resource is stopped, the loop has ended
\* and the sender has gone on.
C5_AsStated ==
  \A r \in Res :
    (\E c \in Callers : caller[c].pc = "send" /\ caller[c].r = r /\ running[r])
      ~> (/\ ~running[r]
          /\ loop[r] = "exited"
          /\ \A c \in Callers : ~(caller[c].pc = "send" /\ caller[c].r = r))

\* C6: a sender leaves its send only when a loop at its select takes the
\* signal and ends; so a StopFetcher on a resource with no loop (never
\* started, or ended) never returns, every StopFetcher that Stop makes goes
\* through that send, and the SSE server is shut down only once Stop has
\* got through all of them.
C6_SenderBlocks ==
  [][/\ \A c \in Callers :
          /\ (caller[c].pc = "send" /\ caller'[c] # caller[c])
               => /\ loop[caller[c].r] = "select"
                  /\ loop'[caller[c].r] = "exited"
          /\ (caller'[c].op = "StopFetcher" /\ caller'[c].pc = "returned"
                /\ caller[c].pc # "returned")
               => caller[c].pc = "send"
          /\ (caller[c].op = "Stop" /\ caller[c].pc = "range"
                /\ caller[c].todo # {} /\ caller'[c] # caller[c])
               => /\ caller'[c].pc = "send"
                  /\ running' = running
     /\ sseDown' # sseDown
          => \E c \in Callers : /\ caller[c].op = "Stop"
                                /\ caller[c].pc = "range"
                                /\ caller[c].todo = {}]_vars

\* StopFetcher was called on a resource that was never started; another
\* resource's loop has ticked since, and the sender is still at its send.
C6_Witness ==
  \E c \in Callers :
    /\ caller[c].pc = "send"
    /\ caller[c].op = "StopFetcher"
    /\ loop[caller[c].r] = "none"
    /\ ~running[caller[c].r]
    /\ ticks >= 1

\* C7: a Fetch that returns an error to its caller has changed nothing of
\* the tuple and sent nothing; a manual Fetch hands that error back.
C7_FailedFetchKeepsAll ==
  [][\A c \in Callers :
       (CallerFetchEnds(c) /\ caller'[c].err # "nil")
         => /\ UNCHANGED <<tupleVars, sent, updates>>
            /\ caller'[c].err \in TransportFailures \cup {"newrequest"}
            /\ caller[c].op = "Fetch" => caller'[c].pc = "returned"]_vars

C7_Witness ==
  \E c \in Callers :
    /\ caller[c].pc = "returned"
    /\ caller[c].op = "Fetch"
    /\ caller[c].err \in TransportFailures
    /\ Populated(caller[c].r)

Stored(cf) ==
  {Store(EmptyTuple, FetchLocals(cf, resp), cf) : resp \in Responses}

\* C9, as stated, for ServeHTTP: the header, the status and the body of a
\* response that was written in full are those of one stored tuple.
C9_AsStated ==
  (reader.pc = "done" /\ reader.msg = "" /\ reader.status # 304)
    => \E t \in Stored(cfg[reader.r]) :
         /\ reader.header =
              WriteHeaders(t.Header,
                           WriteCommonHeaders(EmptyHeader, reader.req.origin))
         /\ reader.status = t.StatusCode
         /\ reader.body = t.Content

\* C10: while no thread is in Fetch, the tuple is the empty one or one that
\* a single response produces: the hash is the digest of the content, and
\* the Etag is the hash.
C10_Consistent ==
  \A r \in Res :
    mu[r] = "free" =>
      \/ Tuple(r) = EmptyTuple
      \/ /\ Tuple(r) \in Stored(cfg[r])
         /\ Hash[r] = Sha1Hex(Content[r])
         /\ Header[r].Etag = <<Hash[r]>>

\* A second response has replaced the first, and the Fetch is over.
C10_Witness ==
  \E r \in Res :
    /\ mu[r] = "free"
    /\ sent[r].n >= 2
    /\ Tuple(r) \in Stored(cfg[r])

\* C12: IsOriginAllowed is true for every origin when the allow-list is
\* empty, and otherwise exactly when the origin is not empty and is one of
\* the entries, byte for byte.
C12_OriginRule ==
  probe.fn = "IsOriginAllowed" =>
    probe.out =
      IF Len(probe.list) = 0 THEN TRUE
      ELSE /\ probe.origin # ""
           /\ probe.origin \in {probe.list[i] : i \in 1..Len(probe.list)}

\* An empty origin against a list that holds the empty string, and an
\* origin that differs from the entry by case only: both refused.
C12_Witness ==
  /\ probe.fn = "IsOriginAllowed"
  /\ ~probe.out
  /\ \/ probe.origin = "" /\ probe.list = <<"o1", "">>
     \/ probe.origin = "O1" /\ probe.list = <<"o1">>

\* The step in which the handler takes the request req.
Serves(req) == nserves' = nserves + 1 /\ reader'.req = req

\* The resource is registered under the alias of req.
RegisteredAlias(req) ==
  req.alias \in AliasKeys /\ resources[req.alias] # NoRes

\* The allow-list of the resource r refuses the origin.
Refused(r, origin) ==
  LET list == cfg[r].AllowedOrigins IN
  /\ list # <<>>
  /\ origin = "" \/ origin \notin {list[i] : i \in 1..Len(list)}

\* The response is over with that status, no header and no body written.
EndsBare(rd, status) ==
  /\ rd.pc = "done"
  /\ rd.status = status
  /\ rd.header = EmptyHeader
  /\ rd.body = <<>>

\* C11: a request for a registered alias, with an allowed origin, whose
\* If-None-Match header is the resource's hash at that moment is answered
\* 304 at once, with no header and no byte of the content, whatever the
\* stored content is.
C11_NotModified ==
  [][\A req \in Requests :
       ( /\ Serves(req)
         /\ RegisteredAlias(req)
         /\ ~Refused(resources[req.alias], req.origin)
         /\ req.inm # EmptyHash
         /\ Hash[resources[req.alias]] = req.inm )
       => /\ EndsBare(reader', 304)
          /\ reader'.msg = ""]_vars

\* A 304 for a resource that holds two bytes.
C11_Witness ==
  /\ reader.status = 304
  /\ reader.r # NoRes
  /\ Hash[reader.r] = reader.req.inm
  /\ Len(Content[reader.r]) = 2
  /\ reader.body = <<>>

\* C13: a request with no alias parameter, or with an alias that is not in
\* the registry, is answered 400 at once: no header and no content of any
\* resource is in the response.
C13_BadAlias ==
  [][\A req \in Requests :
       (Serves(req) /\ ~RegisteredAlias(req))
       => /\ EndsBare(reader', 400)
          /\ reader'.r = NoRes
          /\ reader'.msg =
               IF req.alias = "none" THEN "Missing alias" ELSE "Invalid alias"]_vars

\* An unknown alias refused while another resource holds content.
C13_Witness ==
  /\ reader.status = 400
  /\ reader.msg = "Invalid alias"
  /\ \E r \in Registered : Content[r] # <<>>

\* C14: a request for a registered alias whose origin the resource refuses
\* is answered 401 at once, with no header and no content, also when its
\* If-None-Match header is the resource's hash.
C14_OriginFirst ==
  [][\A req \in Requests :
       ( /\ Serves(req)
         /\ RegisteredAlias(req)
         /\ Refused(resources[req.alias], req.origin) )
       => /\ EndsBare(reader', 401)
          /\ reader'.msg = "Invalid Origin"]_vars

\* A 401 for a request whose If-None-Match is the current hash.
C14_Witness ==
  /\ reader.status = 401
  /\ reader.r # NoRes
  /\ reader.req.inm # EmptyHash
  /\ Hash[reader.r] = reader.req.inm
  /\ reader.body = <<>>

\* C15, as stated: a step of the serving path fetches nothing upstream and
\* leaves the cached state of every resource and the registry as they are.
C15_AsStated ==
  [][reader' # reader =>
       UNCHANGED <<resources, cfg, tupleVars, running, mu, fpc, flocal, loop,
                   sent, ticks>>]_vars

\* The handler has written a full response: the stored status and content.
FullResponse ==
  /\ reader.pc = "done"
  /\ reader.msg = ""
  /\ reader.status \notin {0, 304, 400, 401}

\* C16, as stated: in a full response Access-Control-Allow-Origin is the
\* request's Origin when there is one and is absent otherwise, and Vary holds
\* exactly Origin, Access-Control-Request-Method and
\* Access-Control-Request-Headers, whatever the upstream's headers were.
C16_AsStated ==
  FullResponse =>
    /\ reader.header.ACAO =
         IF reader.req.origin # "" THEN <<reader.req.origin>> ELSE <<>>
    /\ reader.header.Vary = <<"Origin", "Access-Control-Request-Method",
                              "Access-Control-Request-Headers">>

\* C17, as stated: the step that copies the stored header puts every value
\* of every stored header name into the response header.
C17_AsStated ==
  [][(reader.pc = "headers" /\ reader'.pc = "status") =>
       \A k \in DOMAIN EmptyHeader :
         \A i \in 1..Len(Header[reader.r][k]) :
           \E j \in 1..Len(reader'.header[k]) :
             reader'.header[k][j] = Header[reader.r][k][i]]_vars

\* C18: a Fetch that changes the stored hash leaves a stored header whose
\* Etag is the new hash and whose Cache-Control is max-age=N, N being the
\* whole seconds of the interval: N seconds are no more than the interval
\* and N+1 seconds are more (1 for one second, 0 below one second).
C18_EtagAndMaxAge ==
  [][\A r \in Res :
       Hash'[r] # Hash[r] =>
         /\ Header'[r].Etag = <<Hash'[r]>>
         /\ Len(Header'[r].CacheControl) = 1
         /\ LET n == Header'[r].CacheControl[1]
                d == cfg'[r].Interval IN
            /\ n >= 0
            /\ n * Second <= d
            /\ d < (n + 1) * Second
            /\ (d = Second => n = 1)
            /\ (d < Second => n = 0)]_vars

\* A resource fetched every half second holds max-age=0 and its hash as Etag.
C18_Witness ==
  \E r \in Registered :
    /\ cfg[r].Interval < Second
    /\ Hash[r] # EmptyHash
    /\ Header[r].Etag = <<Hash[r]>>
    /\ Header[r].CacheControl = <<0>>

\* C19: with a TransformFn (here the one that appends a byte), a Fetch that
\* stores a response stores the transformed body as content, the hash of
\* the transformed body, not of the upstream's body, as hash and Etag, and
\* the length of the transformed body as Content-Length.
C19_TransformedStored ==
  [][\A r \in Res :
       (Hash'[r] # Hash[r] /\ cfg'[r].TransformFn = "pad") =>
         \E resp \in Responses :
           /\ Content'[r] = resp.Body \o <<0>>
           /\ Hash'[r] = Sha1Hex(resp.Body \o <<0>>)
           /\ Hash'[r] # Sha1Hex(resp.Body)
           /\ Header'[r].Etag = <<Hash'[r]>>
           /\ Header'[r].ContentLength = <<Len(resp.Body) + 1>>
           /\ StatusCode'[r] = resp.StatusCode]_vars

\* A one-byte upstream body stored as two bytes, with their hash and length.
C19_Witness ==
  \E r \in Registered :
    /\ cfg[r].TransformFn = "pad"
    /\ Content[r] = <<1, 0>>
    /\ Hash[r] = Sha1Hex(<<1, 0>>)
    /\ Header[r].ContentLength = <<2>>

\* The resources Start's range hands to StartFetcher in this step.
StartedNow(c) ==
  IF caller[c].op = "Start" /\ caller[c].pc = "range" /\ caller' # caller
    THEN caller[c].todo \ caller'[c].todo
    ELSE {}

\* C20: StartFetcher on a resource that is running, as Start calls it,
\* does nothing: no Fetch begins, no loop is spawned, no field of the
\* resource and nothing of the cacher changes; Start merely goes on with
\* its range.
C20_StartIdempotent ==
  [][\A c \in Callers :
       (StartedNow(c) # {} /\ \A r \in StartedNow(c) : running[r]) =>
         /\ caller'[c].op = "Start"
         /\ caller'[c].pc = "range"
         /\ UNCHANGED <<enableSSE, resources, cfg, tupleVars, running, mu,
                        fpc, flocal, loop, sent, sseDown, crashed, reader,
                        evVars, ticks>>]_vars

\* Start has gone over a running resource that holds content.
C20_Witness ==
  \E c \in Callers :
    /\ caller[c].op = "Start"
    /\ caller[c].pc = "range"
    /\ \E r \in Registered \ caller[c].todo :
         running[r] /\ loop[r] # "none" /\ Populated(r)

\* The step in which WebAppProxy routes the request req.
Routes(req) ==
  /\ nserves' = nserves + 1
  /\ ws'.route \in {"duplex", "standard"}
  /\ ws'.req = req

\* The first value of the Connection header is "upgrade" in some case.
ConnectionIsUpgrade(req) ==
  /\ Len(req.Connection) > 0
  /\ req.Connection[1] \in {"upgrade", "Upgrade", "UPGRADE"}

\* C27, as stated: WebAppProxy gives a request to the duplex bridge exactly
\* when its Connection header is "upgrade" in any case and it has an
\* Upgrade header, whatever the value of that header.
C27_AsStated ==
  [][\A req \in WsRequests :
       Routes(req) =>
         (ws'.route = "duplex"
            <=> (ConnectionIsUpgrade(req) /\ Len(req.Upgrade) > 0))]_vars

\* C27: WebAppProxy gives a request to the duplex bridge exactly when its
\* Connection header is "upgrade" in any case and the first value of its
\* Upgrade header is "websocket" in any case; any other request goes to
\* the standard reverse proxy.
C27_WebSocketOnly ==
  [][\A req \in WsRequests :
       Routes(req) =>
         /\ ws'.route = "duplex"
              <=> /\ ConnectionIsUpgrade(req)
                  /\ Len(req.Upgrade) > 0
                  /\ req.Upgrade[1] \in {"websocket", "WebSocket"}
         /\ ws'.route = "standard" => ws'.pc = "done"]_vars

\* An upgrade to another protocol went to the standard reverse proxy.
C27_Witness ==
  /\ ws.route = "standard"
  /\ ws.req.Connection = <<"Upgrade">>
  /\ ws.req.Upgrade = <<"h2c">>

\* The client connection was not taken over, nothing was written to the
\* upstream, no copy task was started, and ServeHTTP has returned.
Untouched(w) ==
  /\ w.pc = "done"
  /\ ~w.hijacked
  /\ ~w.ncClosed
  /\ ~w.written
  /\ w.cu = "none" /\ w.uc = "none"

\* C28: in the bridge a dial that fails is answered 502 and a writer that is
\* no Hijacker is answered 500; whenever one of the two was answered the
\* client connection was not taken over, no byte of the request was written
\* to the upstream and no copy task was started.
C28_SetupFailures ==
  [][/\ (ws.pc = "connect" /\ ws'.pc # "connect" /\ ws'.conn = "nil")
          => ws'.status = 502
     /\ (ws.pc = "hijacker" /\ ws'.pc # "hijacker" /\ ~ws.hijacker)
          => ws'.status = 500
     /\ ws'.status # 0 => Untouched(ws')]_vars

\* A 500 after a dial that succeeded: the connection is held, nothing
\* else has happened.
C28_Witness ==
  /\ ws.status = 500
  /\ ws.conn = "set"
  /\ Untouched(ws)

\* C29, as stated: once both copy tasks run, ServeHTTP returns when either
\* of them has ended, by an error or by the end of its stream, and the
\* proxy then holds no connection.
C29_AsStated ==
  (ws.pc = "wait" /\ (ws.cu = "done" \/ ws.uc = "done"))
    ~> (ws.pc = "done" /\ ws.conn = "nil")

\* C30, as stated: after the first signal of a copy task both copy tasks
\* of the connection end (taken for the last request of the run, whose
\* tasks no later request replaces).
C30_AsStated ==
  (ws.pc = "release" /\ nserves = MaxServes)
    ~> (ws.cu = "done" /\ ws.uc = "done")

\* ------------------------------------------------ the registry of part_001
\* The caller c makes a call of RemoveResource in this step.
CallsRemoveResource(c) ==
  caller[c] = Idle /\ caller'[c].op = "RemoveResource"

\* The caller c ends a successful RemoveResource in this step.
EndsRemoveResource(c) ==
  /\ caller[c].op = "RemoveResource"
  /\ caller[c].pc = "delete"
  /\ caller'[c] # caller[c]

\* C21: RemoveResource(alias) on an alias the registry does not hold fails
\* with "no resource found", fires no hook and leaves the registry as it
\* was; on an alias it holds, it calls the removal hook, when one is set,
\* with the resource while the mapping is still there, then deletes that
\* alias and no other, and returns the resource.
C21_RemoveResource ==
  [][\A c \in Callers :
       /\ CallsRemoveResource(c) =>
            LET a == caller'[c].cf.Alias IN
            /\ a \in AliasKeys
            /\ resources' = resources
            /\ IF resources[a] = NoRes
                 THEN /\ caller'[c].pc = "returned"
                      /\ caller'[c].err = "no resource found"
                      /\ bridge' = bridge
                 ELSE /\ caller'[c].pc = "delete"
                      /\ caller'[c].r = resources[a]
                      /\ bridge'.hooks =
                           IF bridge.kind \in {"user", "sse"}
                             THEN Append(bridge.hooks,
                                    [hook |-> "removed", r |-> resources[a]])
                             ELSE bridge.hooks
       /\ EndsRemoveResource(c) =>
            /\ caller'[c].pc = "returned"
            /\ caller'[c].err = "nil"
            /\ caller'[c].r = caller[c].r
            /\ bridge' = bridge
            /\ \A a \in AliasKeys :
                 resources'[a] = IF a = caller[c].cf.Alias THEN NoRes
                                                            ELSE resources[a]
  ]_vars

\* One of two registered resources has been removed, and the hook has been
\* called with it.
C21_Witness ==
  \E c \in Callers :
    /\ caller[c].op = "RemoveResource"
    /\ caller[c].pc = "returned"
    /\ caller[c].err = "nil"
    /\ resources[caller[c].cf.Alias] = NoRes
    /\ Registered # {}
    /\ bridge.hooks = <<[hook |-> "removed", r |-> caller[c].r]>>

\* C22 as stated: Stop() on a registry with running resources eventually
\* fires the OnStopped hook with every registered resource stopped.
C22_AsStated ==
  (\E c \in Callers :
     /\ caller[c].op = "Stop"
     /\ caller[c].pc = "range"
     /\ caller[c].todo = Registered
     /\ bridge.kind # "none"
     /\ \E r \in Registered : running[r])
  ~> (/\ \E i \in 1..Len(bridge.hooks) : bridge.hooks[i].hook = "stopped"
      /\ \A r \in Registered : ~running[r])

\* A thread ends a Fetch of the resource r in this step.
EndsFetchOf(r) ==
  \/ loop[r] = "lock" /\ loop'[r] # "lock"
  \/ \E c \in Callers :
       caller[c].pc = "lock" /\ caller[c].r = r /\ caller'[c].pc # "lock"

\* C24: on the per-alias bridge a message is published only by a Fetch of
\* a resource, on the channel named by that resource's alias, which
\* exists, with the stored hash as id and the stored content as data; and
\* the channel of an alias exists when AddResource is at the first Fetch of
\* the resource.
C24_PerAlias ==
  [][bridge.kind = "sse" =>
       /\ bridge'.nmsg # bridge.nmsg =>
            \E r \in Res :
              /\ EndsFetchOf(r)
              /\ cfg[r].Alias \in bridge.channels
              /\ bridge'.nmsg = bridge.nmsg + 1
              /\ bridge'.last = [ch |-> cfg[r].Alias, id |-> Hash'[r],
                                 data |-> Content'[r]]
       /\ \A c \in Callers :
            (caller'[c].op = "AddResource" /\ caller'[c].pc = "lock")
              => caller'[c].cf.Alias \in bridge'.channels
  ]_vars

\* The per-alias bridge has published the content of the resource "b".
C24_Witness ==
  /\ bridge.kind = "sse"
  /\ bridge.nmsg >= 2
  /\ bridge.last.ch = "b"
  /\ bridge.last.data # <<>>
  /\ \E r \in Res : cfg[r].Alias = "b" /\ bridge.last.id = Hash[r]

\* ------------------------------------------------ the shared-channel bridge
\* The replay sends an event in this step.
ReplaySends == bridge'.client.nevents = bridge.client.nevents + 1

\* C23 as stated: every replay event carries, in the envelope, the content
\* stored for its resource when it is sent, and its id is alias-hash with
\* the hash stored for that content, the id the live broadcast of the same
\* content had.
C23_AsStated ==
  [][ReplaySends =>
       \E r \in Res :
         /\ bridge'.client.event.data = Envelope(cfg[r].Alias, Content[r])
         /\ bridge'.client.event.id = CommonId(cfg[r].Alias, Hash[r])
  ]_vars

\* C26: the shared-channel endpoint gives a request to the event stream
\* exactly when no registered resource refuses its Origin, which is every
\* request when the registry is empty; when some registered resource
\* refuses it, the answer is 401 and nothing is given to the stream.
C26_AllMustAllow ==
  [][\A req \in CommonRequests :
       Serves(req) =>
         IF \E r \in Registered : Refused(r, req.origin)
           THEN /\ reader'.pc = "done"
                /\ reader'.status = 401
                /\ Refused(reader'.r, req.origin)
                /\ bridge'.client.pc = "none"
           ELSE /\ reader'.pc = "stream"
                /\ reader'.status = 0
                /\ bridge'.client.pc = "range"
                /\ bridge'.client.start = {a \in AliasKeys : resources[a] # NoRes}
  ]_vars

\* A request was answered 401 while one of the two registered resources
\* allows its origin and the other does not.
C26_Witness ==
  /\ reader.pc = "done"
  /\ reader.status = 401
  /\ Cardinality(Registered) = 2
  /\ \E r \in Registered : ~Refused(r, reader.req.origin)
  /\ \E r \in Registered : Refused(r, reader.req.origin)

\* ------------------------------------------------ the subscription endpoint
\* C25: the subscription endpoint answers 503 when SSE is not enabled,
\* whatever the request; else 400 when the alias is missing or not
\* registered; else 401 when the resource refuses the Origin; each of these
\* ends the request with no header written and nothing given to the
\* event-stream server, which gets every other request.
C25_Precedence ==
  [][\A req \in SubRequests :
       Serves(req) =>
         IF ~enableSSE THEN EndsBare(reader', 503)
         ELSE IF ~RegisteredAlias(req) THEN EndsBare(reader', 400)
         ELSE IF Refused(resources[req.alias], req.origin)
           THEN EndsBare(reader', 401)
         ELSE reader'.pc = "stream" /\ reader'.status = 0
  ]_vars

\* With SSE enabled, a subscription to a registered alias was answered 401.
C25_Witness ==
  /\ enableSSE
  /\ reader.pc = "done"
  /\ reader.status = 401
  /\ RegisteredAlias(reader.req)
  /\ reader.header = EmptyHeader

\* ------------------------------------------------ what a Fetch leaves stored
\* A Fetch of r that got a response ends in this step without an error.
FetchEndsWithResponse(r) ==
  fpc[r] \in {"compare", "notify"} /\ fpc'[r] = "none"

\* C31 as stated: after every Fetch that got a response, the stored status
\* code and body are the status code and the (transformed) body of that
\* response.
C31_AsStated ==
  [][\A r \in Res :
       FetchEndsWithResponse(r) =>
         /\ StatusCode'[r] = flocal[r].status
         /\ Content'[r] = flocal[r].b
  ]_vars

\* ------------------------------------------------------- the update callbacks
\* C33 as stated: the update callbacks of a resource run only in a step
\* that changed its stored hash; a failed Fetch runs none.
C33_AsStated ==
  [][\A r \in Res :
       updates'[r] # updates[r] => Hash'[r] # Hash[r]
  ]_vars

\* A Fetch of r ends in this step and has run callbacks.
Notifies(r) == EndsFetchOf(r) /\ updates'[r] # updates[r]

\* The places of the sequence seq that hold the callback cb.
Places(seq, cb) == {i \in 1..Len(seq) : seq[i].cb = cb}

\* C34 as stated: a notifying Fetch runs the callback of the resource
\* before the hook of the registry, each at most once; a nil callback keeps
\* no other from running; and the hook finds in the resource what the
\* callback of the resource left there.
C34_AsStated ==
  [][\A r \in Res :
       Notifies(r) =>
         LET ran == bridge'.ran
             ev == onUpdateEvents[r] IN
         /\ Cardinality(Places(ran, "transform")) <= 1
         /\ Cardinality(Places(ran, "hook")) <= 1
         /\ \A i \in Places(ran, "hook"), j \in Places(ran, "transform") :
              j < i
         /\ \A cb \in {"transform", "hook"} :
              (\E i \in 1..Len(ev) : ev[i] = cb) => Places(ran, cb) # {}
         /\ \A i \in Places(ran, "hook") : ran[i].content = Content'[r]
  ]_vars

\* C35: RemoveResource changes nothing of the resource it removes: its
\* running flag, its loop, its cached tuple and its callbacks stay as they
\* are; the loop of a resource the registry no longer maps goes on taking
\* ticks, and each of its Fetches returns to the select.
C35_RemovalKeepsLoop ==
  [][/\ \A c \in Callers :
          (CallsRemoveResource(c) \/ EndsRemoveResource(c)) =>
            UNCHANGED <<running, loop, mu, tupleVars, cfg, updates,
                        onUpdateEvents>>
     /\ \A r \in Res \ Registered :
          /\ loop[r] = "select" => loop'[r] \in {"select", "lock"}
          /\ loop[r] = "lock" => loop'[r] \in {"lock", "select"}
          /\ running[r] => running'[r]
  ]_vars

\* RemoveResource has returned the resource; the registry does not map it
\* any more, it is still running, its loop has taken a tick and is about
\* to fetch.
C35_Witness ==
  \E c \in Callers :
    /\ caller[c].op = "RemoveResource"
    /\ caller[c].pc = "returned"
    /\ caller[c].err = "nil"
    /\ caller[c].r \notin Registered
    /\ running[caller[c].r]
    /\ loop[caller[c].r] = "lock"
    /\ updates[caller[c].r] > 0

\* No AddResource is under way.
NoCallUnderWay == \A c \in Goroutines : caller[c].pc \in {"idle", "returned"}

\* C36: whatever the interleaving of AddResource calls that carry the same
\* alias, no two resources of one alias have a fetch loop each, and once the
\* calls are over every fetch loop is the loop of a resource the registry
\* maps.
C36_AsStated ==
  /\ \A r1, r2 \in Res :
       (r1 # r2 /\ cfg[r1] # NoCfg /\ cfg[r2] # NoCfg
          /\ cfg[r1].Alias = cfg[r2].Alias)
         => ~(loop[r1] # "none" /\ loop[r2] # "none")
  /\ NoCallUnderWay =>
       \A r \in Res : loop[r] \notin {"none", "exited"} => r \in Registered

\* The goroutine c executes the go statement of StartFetcher.
SpawnsLoop(c) == caller[c].pc = "spawn" /\ caller'[c].pc # "spawn"

\* C37: a resource has at most one fetch-loop task, also when StartFetcher
\* is called by several goroutines at once: no goroutine starts a loop for
\* a resource that has one.
C37_AsStated ==
  [][\A c \in Goroutines :
       SpawnsLoop(c) => loop[caller[c].r] = "none"]_vars

\* The handler executes w.WriteHeader(resource.StatusCode).
WritesStoredStatus == reader.pc = "status" /\ reader'.pc # "status"

\* C38: the status the handler writes in a full response to a registered
\* alias is never the zero a Resource starts with, also when the first
\* Fetch of the resource failed.
C38_AsStated ==
  [][WritesStoredStatus => StatusCode[reader.r] # 0]_vars

\* A callback of the resource r starts to run.
RunsCallback(r) == updates'[r] # updates[r]

\* The thread t is inside a callback of r that has called r.Fetch().
InCallbackFetch(r, t) ==
  \/ fpc[r] = "relock" /\ mu[r] = t
  \/ /\ t \in Callers
     /\ caller[t].r = r
     /\ caller[t].pc \in {"cblock", "cbfetch"}

\* C39: a callback runs while the mutex of its resource is held, so that no
\* other Fetch of the resource runs meanwhile, and a callback that calls
\* Fetch on its resource never returns: its thread stays where it is, the
\* mutex stays taken, and a loop in this place takes no more tick or stop.
C39_AsStated ==
  [][\A r \in Res :
       /\ RunsCallback(r) => mu[r] # "free"
       /\ \A t \in Callers \cup {"loop"} :
            InCallbackFetch(r, t) => InCallbackFetch(r, t)'
  ]_vars

\* ServeHTTP of the duplex bridge returns in this step.
BridgeReturns ==
  /\ ws.pc \notin {"idle", "done"}
  /\ ws'.pc = "done"
  /\ ws'.route \in {"duplex", "direct"}

\* C40: when ServeHTTP of the duplex bridge returns, by whichever path, the
\* proxy holds no upstream connection, and so no request finds a
\* connection that an earlier request has left.
C40_AsStated ==
  [][/\ BridgeReturns => ws'.conn = "nil"
     /\ (ws.pc = "connect" /\ ws'.pc # "connect") => ws.conn = "nil"]_vars

====
